---------------------------- MODULE Spec2Model ----------------------------
(***************************************************************************)
(* Model of mpfr_legendre (src/src/legendre.c) and mpfr_hermite            *)
(* (src/src/hermite.c): the special-value classifier, the closed form at   *)
(* x = 0, the recurrence with Ziv's loop and the final rounding.           *)
(*                                                                         *)
(* An MPFR number is a record [cls, sign, prec, man, exp]; a regular       *)
(* number has the value sign * man * 2^exp with man an odd natural number. *)
(* Significands are wider than TLC's 32-bit integers, so a natural number  *)
(* is a little-endian sequence of limbs in base LimbBase.                  *)
(***************************************************************************)
EXTENDS Integers, Sequences, FiniteSets, TLC

(***************************************************************************)
(* Bounds of the model.                                                    *)
(***************************************************************************)
\* The result precisions explored are 1 .. MaxPrec.
MaxPrec == 3
\* The degrees whose recurrence / closed form is run to completion are
\* 2 .. MaxDegree; larger degrees are classified and then left pending.
MaxDegree == 6
\* mpfr_lngamma and mpfr_exp are not evaluated: the closed form's e is the
\* exact value moved by -MaxUlpOff .. MaxUlpOff units in the last place.
MaxUlpOff == 1
\* The updates of one digest context that are followed.
MaxUpdates == 2
\* Ziv's loop and the cancellation restart raise the working precision
\* without limit: a raise beyond MaxWorkPrec bits is left pending.
MaxWorkPrec == 200

(***************************************************************************)
(* Natural numbers of any size: little-endian limb sequences, no leading   *)
(* zero limb, <<>> is 0.                                                   *)
(***************************************************************************)
LimbBits == 12
LimbBase == 4096

RECURSIVE Pow2(_)
Pow2(k) == IF k = 0 THEN 1 ELSE 2 * Pow2(k - 1)

RECURSIVE BNTrim(_)
BNTrim(a) ==
  IF a = <<>> THEN <<>>
  ELSE IF a[Len(a)] = 0 THEN BNTrim(SubSeq(a, 1, Len(a) - 1)) ELSE a

RECURSIVE BNFromInt(_)
BNFromInt(k) ==
  IF k = 0 THEN <<>> ELSE <<k % LimbBase>> \o BNFromInt(k \div LimbBase)

RECURSIVE BNToInt(_)
BNToInt(a) ==
  IF a = <<>> THEN 0 ELSE Head(a) + LimbBase * BNToInt(Tail(a))

RECURSIVE BNAddC(_, _, _)
BNAddC(a, b, c) ==
  IF a = <<>> /\ b = <<>> THEN (IF c = 0 THEN <<>> ELSE <<c>>)
  ELSE LET x == IF a = <<>> THEN 0 ELSE Head(a)
           y == IF b = <<>> THEN 0 ELSE Head(b)
           s == x + y + c
       IN  <<s % LimbBase>>
             \o BNAddC(IF a = <<>> THEN <<>> ELSE Tail(a),
                       IF b = <<>> THEN <<>> ELSE Tail(b), s \div LimbBase)

BNAdd(a, b) == BNAddC(a, b, 0)

\* a - b for a >= b.
RECURSIVE BNSubB(_, _, _)
BNSubB(a, b, c) ==
  IF a = <<>> THEN <<>>
  ELSE LET y == IF b = <<>> THEN 0 ELSE Head(b)
           d == Head(a) - y - c
       IN  <<IF d < 0 THEN d + LimbBase ELSE d>>
             \o BNSubB(Tail(a), IF b = <<>> THEN <<>> ELSE Tail(b),
                       IF d < 0 THEN 1 ELSE 0)

BNSub(a, b) == BNTrim(BNSubB(a, b, 0))

\* -1, 0 or 1 as a < b, a = b, a > b.
RECURSIVE BNCmpFrom(_, _, _)
BNCmpFrom(a, b, k) ==
  IF k = 0 THEN 0
  ELSE IF a[k] < b[k] THEN -1
  ELSE IF a[k] > b[k] THEN 1
  ELSE BNCmpFrom(a, b, k - 1)

BNCmp(a, b) ==
  IF Len(a) < Len(b) THEN -1
  ELSE IF Len(a) > Len(b) THEN 1
  ELSE BNCmpFrom(a, b, Len(a))

\* a * k for 0 <= k < 2^19.
RECURSIVE BNMulSmallC(_, _, _)
BNMulSmallC(a, k, c) ==
  IF a = <<>> THEN BNFromInt(c)
  ELSE LET s == Head(a) * k + c
       IN  <<s % LimbBase>> \o BNMulSmallC(Tail(a), k, s \div LimbBase)

BNMulSmall(a, k) == IF k = 0 THEN <<>> ELSE BNMulSmallC(a, k, 0)

RECURSIVE BNMul(_, _)
BNMul(a, b) ==
  IF a = <<>> \/ b = <<>> THEN <<>>
  ELSE BNAdd(BNMulSmall(a, Head(b)),
             LET r == BNMul(a, Tail(b)) IN IF r = <<>> THEN <<>> ELSE <<0>> \o r)

\* Quotient and remainder of a by d, 0 < d < 2^19; the limbs are taken from
\* the most significant one down.
RECURSIVE BNDivSmallFrom(_, _, _, _)
BNDivSmallFrom(a, d, k, r) ==
  IF k = 0 THEN [q |-> <<>>, r |-> r]
  ELSE LET cur  == r * LimbBase + a[k]
           rest == BNDivSmallFrom(a, d, k - 1, cur % d)
       IN  [q |-> rest.q \o <<cur \div d>>, r |-> rest.r]

BNDivSmall(a, d) ==
  LET qr == BNDivSmallFrom(a, d, Len(a), 0) IN [q |-> BNTrim(qr.q), r |-> qr.r]

RECURSIVE IntBitLen(_)
IntBitLen(k) == IF k = 0 THEN 0 ELSE 1 + IntBitLen(k \div 2)

BNBitLen(a) ==
  IF a = <<>> THEN 0 ELSE LimbBits * (Len(a) - 1) + IntBitLen(a[Len(a)])

BNZeros(k) == [j \in 1..k |-> 0]

BNShl(a, k) ==
  IF a = <<>> THEN <<>>
  ELSE BNZeros(k \div LimbBits) \o BNMulSmall(a, Pow2(k % LimbBits))

\* floor(a / 2^k)
BNShr(a, k) ==
  IF k \div LimbBits >= Len(a) THEN <<>>
  ELSE BNDivSmall(SubSeq(a, (k \div LimbBits) + 1, Len(a)), Pow2(k % LimbBits)).q

BNPow2(k) == BNShl(<<1>>, k)

BNIsOdd(a) == a # <<>> /\ Head(a) % 2 = 1

RECURSIVE IntTrailingZeros(_)
IntTrailingZeros(k) == IF k % 2 = 1 THEN 0 ELSE 1 + IntTrailingZeros(k \div 2)

\* Number of trailing zero bits of a # 0.
RECURSIVE BNTrailingZeros(_)
BNTrailingZeros(a) ==
  IF Head(a) = 0 THEN LimbBits + BNTrailingZeros(Tail(a))
  ELSE IntTrailingZeros(Head(a))

(***************************************************************************)
(* MPFR numbers.  cls is "nan", "inf", "zero" or "reg"; "uninit" is a      *)
(* group temporary that has been given a precision and no value yet.  The  *)
(* sign field is kept for every class: MPFR_SET_NAN and MPFR_SET_ZERO      *)
(* write the exponent field only.  The exponent range is not modelled      *)
(* (no overflow or underflow of a regular number) except where the source  *)
(* tests the overflow flag.                                                *)
(***************************************************************************)
Rnd == {"RNDN", "RNDZ", "RNDU", "RNDD", "RNDA"}

Num(c, s, p, m, e) == [cls |-> c, sign |-> s, prec |-> p, man |-> m, exp |-> e]

Singular(c, s, p) == Num(c, s, p, <<>>, 0)

MPFR_IS_NAN(x) == x.cls = "nan"
MPFR_IS_INF(x) == x.cls = "inf"
MPFR_IS_ZERO(x) == x.cls = "zero"
MPFR_IS_SINGULAR(x) == x.cls # "reg"
MPFR_SIGN(x) == x.sign
MPFR_PREC(x) == x.prec

\* The exponent e of a regular number, 2^(e-1) <= |x| < 2^e.
MPFR_GET_EXP(x) == BNBitLen(x.man) + x.exp

MPFR_SET_NAN(x) == [x EXCEPT !.cls = "nan", !.man = <<>>, !.exp = 0]
MPFR_SET_ZERO(x) == [x EXCEPT !.cls = "zero", !.man = <<>>, !.exp = 0]
MPFR_SET_NEG(x) == [x EXCEPT !.sign = -1]

\* An exact value sign * man * 2^exp, man = <<>> for zero, brought to an odd
\* significand.
Exact(s, m, e) ==
  IF m = <<>> THEN [sign |-> s, man |-> <<>>, exp |-> 0]
  ELSE LET tz == BNTrailingZeros(m)
       IN  [sign |-> s, man |-> BNShr(m, tz), exp |-> e + tz]

ExactOf(x) == [sign |-> x.sign, man |-> x.man, exp |-> x.exp]

\* -1, 0, 1: the order of the magnitudes of two non-zero exact values.
CmpMag(a, b) ==
  LET ea == BNBitLen(a.man) + a.exp
      eb == BNBitLen(b.man) + b.exp
      lo == IF a.exp < b.exp THEN a.exp ELSE b.exp
  IN  IF ea < eb THEN -1
      ELSE IF ea > eb THEN 1
      ELSE BNCmp(BNShl(a.man, a.exp - lo), BNShl(b.man, b.exp - lo))

\* a + b for exact values of the same scale handling.
ExactAdd(a, b) ==
  IF a.man = <<>> THEN b
  ELSE IF b.man = <<>> THEN a
  ELSE LET lo == IF a.exp < b.exp THEN a.exp ELSE b.exp
           ma == BNShl(a.man, a.exp - lo)
           mb == BNShl(b.man, b.exp - lo)
           c  == BNCmp(ma, mb)
       IN  IF a.sign = b.sign THEN Exact(a.sign, BNAdd(ma, mb), lo)
           ELSE IF c = 0 THEN Exact(1, <<>>, 0)
           ELSE IF c > 0 THEN Exact(a.sign, BNSub(ma, mb), lo)
           ELSE Exact(b.sign, BNSub(mb, ma), lo)

ExactNeg(a) == [a EXCEPT !.sign = -a.sign]

ExactMul(a, b) == Exact(a.sign * b.sign, BNMul(a.man, b.man), a.exp + b.exp)

\* The order of two exact values: -1, 0, 1.
ExactCmp(a, b) ==
  LET sa == IF a.man = <<>> THEN 0 ELSE a.sign
      sb == IF b.man = <<>> THEN 0 ELSE b.sign
  IN  IF sa # sb THEN (IF sa < sb THEN -1 ELSE 1)
      ELSE IF sa = 0 THEN 0
      ELSE sa * CmpMag(a, b)

\* Whether the magnitude is rounded up (away from zero) when the discarded
\* part is non-zero: half is the order of the discarded part against one
\* half of the last kept place, odd says whether the kept part is odd.
RoundsAway(rnd, sign, half, odd) ==
  CASE rnd = "RNDN" -> half > 0 \/ (half = 0 /\ odd)
    [] rnd = "RNDZ" -> FALSE
    [] rnd = "RNDA" -> TRUE
    [] rnd = "RNDU" -> sign > 0
    [] rnd = "RNDD" -> sign < 0

\* Rounding of a non-zero exact value (odd significand) to p bits: the
\* stored number and the ternary value.
RoundExact(v, p, rnd) ==
  LET L == BNBitLen(v.man)
      k == L - p
  IN  IF k <= 0 THEN [val |-> Num("reg", v.sign, p, v.man, v.exp), tern |-> 0]
      ELSE LET q    == BNShr(v.man, k)
               r    == BNSub(v.man, BNShl(q, k))
               up   == RoundsAway(rnd, v.sign, BNCmp(r, BNPow2(k - 1)), BNIsOdd(q))
               q2   == IF up THEN BNAdd(q, <<1>>) ELSE q
               w    == Exact(v.sign, q2, v.exp + k)
           IN  [val |-> Num("reg", w.sign, p, w.man, w.exp),
                tern |-> IF up THEN v.sign ELSE -v.sign]

\* Rounding of any exact value; a zero result takes the sign zsign.
RoundAny(v, p, rnd, zsign) ==
  IF v.man = <<>> THEN [val |-> Singular("zero", zsign, p), tern |-> 0]
  ELSE RoundExact(v, p, rnd)

\* mpfr_set (a, b, rnd): the sign and the exponent field are always copied.
mpfr_set(a, b, rnd) ==
  IF MPFR_IS_SINGULAR(b) THEN [val |-> Singular(b.cls, b.sign, a.prec), tern |-> 0]
  ELSE RoundExact(ExactOf(b), a.prec, rnd)

mpfr_set_ui(a, u, rnd) ==
  RoundAny(Exact(1, BNFromInt(u), 0), a.prec, rnd, 1)

mpfr_set_si(a, k, rnd) ==
  IF k >= 0 THEN mpfr_set_ui(a, k, rnd)
  ELSE RoundExact(Exact(-1, BNFromInt(-k), 0), a.prec, rnd)

mpfr_mul_ui(a, b, u, rnd) ==
  CASE b.cls = "nan" -> [val |-> Singular("nan", b.sign, a.prec), tern |-> 0]
    [] b.cls = "inf" ->
         [val |-> Singular(IF u = 0 THEN "nan" ELSE "inf", b.sign, a.prec), tern |-> 0]
    [] b.cls = "zero" \/ (b.cls = "reg" /\ u = 0) ->
         [val |-> Singular("zero", b.sign, a.prec), tern |-> 0]
    [] OTHER -> RoundExact(Exact(b.sign, BNMulSmall(b.man, u), b.exp), a.prec, rnd)

mpfr_mul(a, b, c, rnd) ==
  CASE b.cls = "nan" \/ c.cls = "nan" ->
         [val |-> Singular("nan", a.sign, a.prec), tern |-> 0]
    [] b.cls = "inf" \/ c.cls = "inf" ->
         [val |-> Singular(IF b.cls = "zero" \/ c.cls = "zero" THEN "nan" ELSE "inf",
                           b.sign * c.sign, a.prec), tern |-> 0]
    [] b.cls = "zero" \/ c.cls = "zero" ->
         [val |-> Singular("zero", b.sign * c.sign, a.prec), tern |-> 0]
    [] OTHER -> RoundExact(ExactMul(ExactOf(b), ExactOf(c)), a.prec, rnd)

\* The sign of an exact zero difference: -0 when rounding down, else +0.
mpfr_sub(a, b, c, rnd) ==
  CASE b.cls = "nan" \/ c.cls = "nan" ->
         [val |-> Singular("nan", a.sign, a.prec), tern |-> 0]
    [] b.cls = "inf" ->
         [val |-> Singular(IF c.cls = "inf" /\ c.sign = b.sign THEN "nan" ELSE "inf",
                           b.sign, a.prec), tern |-> 0]
    [] c.cls = "inf" -> [val |-> Singular("inf", -c.sign, a.prec), tern |-> 0]
    [] b.cls = "zero" /\ c.cls = "zero" ->
         [val |-> Singular("zero",
                           IF b.sign = -c.sign THEN b.sign
                           ELSE IF rnd = "RNDD" THEN -1 ELSE 1, a.prec),
          tern |-> 0]
    [] b.cls = "zero" -> RoundExact(ExactNeg(ExactOf(c)), a.prec, rnd)
    [] c.cls = "zero" -> RoundExact(ExactOf(b), a.prec, rnd)
    [] OTHER -> RoundAny(ExactAdd(ExactOf(b), ExactNeg(ExactOf(c))), a.prec, rnd,
                         IF rnd = "RNDD" THEN -1 ELSE 1)

\* b / u: the quotient is taken to a.prec + 2 bits at least and a sticky
\* bit stands for a non-zero remainder, so that one rounding is correct.
mpfr_div_ui(a, b, u, rnd) ==
  CASE b.cls = "nan" -> [val |-> Singular("nan", b.sign, a.prec), tern |-> 0]
    [] b.cls = "inf" -> [val |-> Singular("inf", b.sign, a.prec), tern |-> 0]
    [] b.cls = "zero" ->
         [val |-> Singular(IF u = 0 THEN "nan" ELSE "zero", b.sign, a.prec), tern |-> 0]
    [] u = 0 -> [val |-> Singular("inf", b.sign, a.prec), tern |-> 0]
    [] OTHER ->
         LET s  == a.prec + 2 + IntBitLen(u)
             qr == BNDivSmall(BNShl(b.man, s), u)
             m  == IF qr.r = 0 THEN qr.q ELSE BNAdd(BNShl(qr.q, 1), <<1>>)
             e  == IF qr.r = 0 THEN b.exp - s ELSE b.exp - s - 1
         IN  RoundExact(Exact(b.sign, m, e), a.prec, rnd)

\* mpfr_cmp for two numbers, neither a NaN: -1, 0, 1.
mpfr_cmp(b, c) ==
  CASE b.cls = "inf" /\ c.cls = "inf" ->
         (IF b.sign = c.sign THEN 0 ELSE b.sign)
    [] b.cls = "inf" -> b.sign
    [] c.cls = "inf" -> -c.sign
    [] OTHER -> ExactCmp(ExactOf(b), ExactOf(c))

mpfr_lessequal_p(b, c) == ~MPFR_IS_NAN(b) /\ ~MPFR_IS_NAN(c) /\ mpfr_cmp(b, c) <= 0
mpfr_greaterequal_p(b, c) == ~MPFR_IS_NAN(b) /\ ~MPFR_IS_NAN(c) /\ mpfr_cmp(b, c) >= 0
mpfr_equal_p(b, c) == ~MPFR_IS_NAN(b) /\ ~MPFR_IS_NAN(c) /\ mpfr_cmp(b, c) = 0

\* The number of bits needed to store the significand; 0 for a singular.
mpfr_min_prec(x) == IF MPFR_IS_SINGULAR(x) THEN 0 ELSE BNBitLen(x.man)

gmpfr_one == Num("reg", 1, 1, <<1>>, 0)
gmpfr_mone == Num("reg", -1, 1, <<1>>, 0)

\* ceil(log2(k)) for k >= 1.
MPFR_INT_CEIL_LOG2(k) == IF k = 1 THEN 0 ELSE IntBitLen(k - 1)

\* The bits of a limb of a significand.
GMP_NUMB_BITS == 64

\* MPFR_CAN_ROUND (b, err, prec, rnd) = mpfr_round_p on the significand: with
\* an error of at most 2^(EXP(b) - err), b can be rounded to prec bits unless
\* the bits prec' + 1 .. err of its significand are all 0 or all 1, where
\* prec' = prec + 1 for rounding to nearest.
MPFR_CAN_ROUND(b, err0, prec, rnd) ==
  LET P == prec + (IF rnd = "RNDN" THEN 1 ELSE 0)
      L == BNBitLen(b.man)
      \* the bits of the limbs that hold the significand
      limbs == ((b.prec + GMP_NUMB_BITS - 1) \div GMP_NUMB_BITS) * GMP_NUMB_BITS
      E == IF err0 < limbs THEN err0 ELSE limbs
      \* the first E bits of the significand, zero-extended
      top == IF E >= L THEN BNShl(b.man, E - L) ELSE BNShr(b.man, L - E)
      low == BNSub(top, BNShl(BNShr(top, E - P), E - P))
  IN  /\ ~MPFR_IS_SINGULAR(b)
      /\ err0 > 0
      /\ err0 > P
      /\ P < limbs
      /\ low # <<>>
      /\ BNCmp(BNAdd(low, <<1>>), BNPow2(E - P)) # 0

\* MPFR_ZIV_INIT (loop, prec): the first increment.
MPFR_ZIV_INIT == GMP_NUMB_BITS

\* MPFR_ZIV_NEXT (loop, prec): prec += loop; loop = prec / 2.
MPFR_ZIV_NEXT(loop, prec) == [prec |-> prec + loop, loop |-> (prec + loop) \div 2]

\* MPFR_GROUP_INIT / MPFR_GROUP_REPREC: a temporary of the group has its
\* precision set and holds no value.
Temp(p) == Singular("uninit", 1, p)

\* Before MPFR_GROUP_INIT and after MPFR_GROUP_CLEAR.
NoTemp == Singular("uninit", 1, 0)

(***************************************************************************)
(* src/src/legendre.c                                                      *)
(***************************************************************************)
\* likely_cancellation (x, y, prec), legendre.c:28-73.
likely_cancellation(a, b, prec) ==
  IF MPFR_IS_ZERO(a) \/ MPFR_IS_ZERO(b) THEN 0
  ELSE IF MPFR_SIGN(a) # MPFR_SIGN(b) THEN 0
  ELSE LET ex == MPFR_GET_EXP(a)
           ey == MPFR_GET_EXP(b)
           diff == mpfr_sub(Temp(prec + 8), a, b, "RNDN").val
           maxexp == IF ex > ey THEN ex ELSE ey
           lost_bits == maxexp - MPFR_GET_EXP(diff)
       IN  IF ex - ey > 2 \/ ey - ex > 2 THEN 0
           ELSE IF MPFR_IS_ZERO(diff) THEN prec
           ELSE IF lost_bits <= 1 THEN 0
           ELSE lost_bits

\* likely_cancellation with the return of legendre.c:54-58 made before the
\* clear of diff.
ScratchUseLeaking(m, a, b, prec) ==
  IF MPFR_IS_ZERO(a) \/ MPFR_IS_ZERO(b) THEN m
  ELSE IF MPFR_SIGN(a) # MPFR_SIGN(b) THEN m
  ELSE IF MPFR_GET_EXP(a) - MPFR_GET_EXP(b) > 2 \/ MPFR_GET_EXP(b) - MPFR_GET_EXP(a) > 2
       THEN m
  ELSE IF MPFR_IS_ZERO(mpfr_sub(Temp(prec + 8), a, b, "RNDN").val)
       THEN [m EXCEPT !.dinit = @ + 1]
  ELSE [m EXCEPT !.dinit = @ + 1, !.dclear = @ + 1]

\* likely_cancellation, legendre.c:35-64: the returns of lines 36, 39 and 46
\* come before mpfr_init2 (diff); after it diff is cleared at line 56 or at
\* line 64 before the return.  m counts the initialisations and the clears.
ScratchUse(m, a, b, prec) ==
  IF MPFR_IS_ZERO(a) \/ MPFR_IS_ZERO(b) THEN m
  ELSE IF MPFR_SIGN(a) # MPFR_SIGN(b) THEN m
  ELSE IF MPFR_GET_EXP(a) - MPFR_GET_EXP(b) > 2 \/ MPFR_GET_EXP(b) - MPFR_GET_EXP(a) > 2
       THEN m
  ELSE IF MPFR_IS_ZERO(mpfr_sub(Temp(prec + 8), a, b, "RNDN").val)
       THEN [m EXCEPT !.dinit = @ + 1, !.dclear = @ + 1]
  ELSE [m EXCEPT !.dinit = @ + 1, !.dclear = @ + 1]

\* The degree ceiling 2^13 of legendre.c:98.
LegendreMaxDegree == 8192

\* The domain test with strict comparisons, which leaves out the bounds.
LegendreRejectsBounds(n, x) ==
  \/ ~(mpfr_cmp(x, gmpfr_one) < 0 /\ mpfr_cmp(x, gmpfr_mone) > 0)
  \/ MPFR_IS_NAN(x)
  \/ n < 0
  \/ n > LegendreMaxDegree

\* The degree test off by one, which rejects the ceiling itself.
LegendreRejectsCeiling(n, x) ==
  \/ ~(mpfr_lessequal_p(x, gmpfr_one) /\ mpfr_greaterequal_p(x, gmpfr_mone))
  \/ n < 0
  \/ n >= LegendreMaxDegree

\* legendre.c:95-98: the domain and degree test.
LegendreRejects(n, x) ==
  \/ ~(mpfr_lessequal_p(x, gmpfr_one) /\ mpfr_greaterequal_p(x, gmpfr_mone))
  \/ n < 0
  \/ n > LegendreMaxDegree

\* P_n(-1) without the parity of n.
LegendreAtBoundPlus(res, n, x, rnd) == mpfr_set_ui(res, 1, rnd).val

\* legendre.c:110-119: P_n(1) and P_n(-1).
LegendreAtBound(res, n, x, rnd) ==
  IF mpfr_equal_p(x, gmpfr_one) THEN mpfr_set_ui(res, 1, rnd).val
  ELSE mpfr_set_si(res, IF n % 2 = 0 THEN 1 ELSE -1, rnd).val

\* P_0 set to 0 instead of 1.
LegendreDegreeZeroNull(res, rnd) == mpfr_set_ui(res, 0, rnd).val

\* legendre.c:122-128: P_0 = 1.
LegendreDegreeZero(res, rnd) == mpfr_set_ui(res, 1, rnd).val

\* P_1 computed as H_1 is, with the factor 2.
LegendreDegreeOneDoubled(res, x, rnd) == mpfr_mul_ui(res, x, 2, rnd)

\* P_1 with the ternary value dropped.
LegendreDegreeOneSilent(res, x, rnd) == [val |-> mpfr_set(res, x, rnd).val, tern |-> 0]

\* legendre.c:130-134: P_1 = x, the ternary value of mpfr_set is returned.
LegendreDegreeOne(res, x, rnd) == mpfr_set(res, x, rnd)

\* The test of the odd degrees with the parity inverted.
LegendreZeroOddInverted(n, x) == MPFR_IS_ZERO(x) /\ n % 2 = 0

\* The early return at x = 0 taken for every degree.
LegendreZeroAny(n, x) == MPFR_IS_ZERO(x)

\* legendre.c:137: x is zero and n is odd.
LegendreZeroOdd(n, x) == MPFR_IS_ZERO(x) /\ n % 2 = 1

\* legendre.c:145-153: loop_err, realprec and err on entry of the general path.
LegendreLoopErr(n) == 7 * n + 1

LegendreRealPrec(res_prec, n, x) ==
  LET rp == res_prec + MPFR_INT_CEIL_LOG2(res_prec) * n + LegendreLoopErr(n)
  IN  IF rp > MPFR_PREC(x) THEN rp ELSE MPFR_PREC(x)

LegendreErr(n) == MPFR_INT_CEIL_LOG2(LegendreLoopErr(n)) + 5

\* The two terms of step i with the coefficient 2i + 1 in the place of 2i - 1.
LegendreTermsShifted(x, a1, a2, k, prec) ==
  LET ft == mpfr_mul_ui(Temp(prec), x, 2 * k + 1, "RNDN").val
      st == mpfr_mul_ui(Temp(prec), a2, k - 1, "RNDN").val
  IN  [first_term |-> mpfr_mul(Temp(prec), ft, a1, "RNDN").val, second_term |-> st]

\* legendre.c:170-175: the two terms of step i before the subtraction.
LegendreTerms(x, a1, a2, k, prec) ==
  LET ft == mpfr_mul_ui(Temp(prec), x, 2 * k - 1, "RNDN").val
      st == mpfr_mul_ui(Temp(prec), a2, k - 1, "RNDN").val
  IN  [first_term |-> mpfr_mul(Temp(prec), ft, a1, "RNDN").val, second_term |-> st]

\* legendre.c:170-204: some operation of step i returns a non-zero ternary
\* value.
LegendreStepInexact(x, a1, a2, k, prec) ==
  LET m1 == mpfr_mul_ui(Temp(prec), x, 2 * k - 1, "RNDN")
      m2 == mpfr_mul_ui(Temp(prec), a2, k - 1, "RNDN")
      m3 == mpfr_mul(Temp(prec), m1.val, a1, "RNDN")
      d  == mpfr_sub(Temp(prec), m3.val, m2.val, "RNDN")
      q  == mpfr_div_ui(Temp(prec), d.val, k, "RNDN")
  IN  m1.tern # 0 \/ m2.tern # 0 \/ m3.tern # 0 \/ d.tern # 0 \/ q.tern # 0

\* pn of step i with the subtraction and the division rounded toward zero.
LegendreNextTruncating(t, k, prec) ==
  mpfr_div_ui(Temp(prec),
              mpfr_sub(Temp(prec), t.first_term, t.second_term, "RNDZ").val,
              k, "RNDZ").val

\* legendre.c:202-204: pn = (first_term - second_term) / i.
LegendreNext(t, k, prec) ==
  mpfr_div_ui(Temp(prec),
              mpfr_sub(Temp(prec), t.first_term, t.second_term, "RNDN").val,
              k, "RNDN").val

(***************************************************************************)
(* src/src/hermite.c                                                       *)
(***************************************************************************)
\* The conversion of a long to unsigned (32 bits), as a natural number.
ToUnsigned(n) ==
  IF n >= 0 THEN BNFromInt(n) ELSE BNSub(BNPow2(32), BNFromInt(-n))

\* 10^15 * log2_r1 and 10^15 * (log2_A + 1.0), hermite.c:119-121, the first
\* rounded to 15 decimal places: for the degrees explored the sum is farther
\* from an integer than the double arithmetic of the source can move it.
Log2R1Scaled ==
  BNAdd(BNMul(BNFromInt(14499843), BNFromInt(100000000)), BNFromInt(13476496))

Log2AScaled ==
  BNAdd(BNMul(BNFromInt(27265701), BNFromInt(100000000)), BNFromInt(47010381))

\* Values that do not fit TLC's integers are stored as this one; only their
\* order against a working precision is read.
PrecCap == 1073741823

\* error_extra_bits (n), hermite.c:104-124, n an unsigned as a natural
\* number: the table for n <= 10, else ceil (log2_A + n * log2_r1 + 1.0).
error_extra_bits(un) ==
  IF BNCmp(un, BNFromInt(10)) <= 0
  THEN <<0, 0, 3, 4, 6, 7, 9, 10, 12, 13, 14>>[BNToInt(un) + 1]
  ELSE LET v  == BNAdd(BNMul(un, Log2R1Scaled), Log2AScaled)
           d1 == BNDivSmall(v, 100000)
           d2 == BNDivSmall(d1.q, 100000)
           d3 == BNDivSmall(d2.q, 100000)
           c  == IF d1.r = 0 /\ d2.r = 0 /\ d3.r = 0 THEN d3.q ELSE BNAdd(d3.q, <<1>>)
       IN  IF BNBitLen(c) > 30 THEN PrecCap ELSE BNToInt(c)

\* hermite.c:189-190: realprec on entry of the general path.
HermiteRealPrec(res_prec, x_prec) ==
  LET rp == IF x_prec > res_prec THEN x_prec ELSE res_prec + 10
  IN  rp + MPFR_INT_CEIL_LOG2(rp)

\* hermite.c:194.
HermiteErr(n) ==
  LET b == error_extra_bits(ToUnsigned(n))
  IN  IF b = PrecCap THEN PrecCap ELSE b + 2

\* hermite.c:210-216: pn = 2x * p1 - 2i * p2.
HermiteNext(x, a1, a2, k, prec) ==
  LET ft == mpfr_mul_ui(Temp(prec), x, 2, "RNDN").val
      f2 == mpfr_mul(Temp(prec), ft, a1, "RNDN").val
      st == mpfr_mul_ui(Temp(prec), a2, 2 * k, "RNDN").val
  IN  [first_term |-> f2, second_term |-> st,
       pn |-> mpfr_sub(Temp(prec), f2, st, "RNDN").val]

\* hermite.c:210-216: some operation of step i returns a non-zero ternary
\* value.
HermiteStepInexact(x, a1, a2, k, prec) ==
  LET m1 == mpfr_mul_ui(Temp(prec), x, 2, "RNDN")
      m2 == mpfr_mul(Temp(prec), m1.val, a1, "RNDN")
      m3 == mpfr_mul_ui(Temp(prec), a2, 2 * k, "RNDN")
      d  == mpfr_sub(Temp(prec), m2.val, m3.val, "RNDN")
  IN  m1.tern # 0 \/ m2.tern # 0 \/ m3.tern # 0 \/ d.tern # 0

\* The multiplication of H_1 rounded to nearest whatever the mode asked.
HermiteDegreeOneNearest(res, x, rnd) == mpfr_mul_ui(res, x, 2, "RNDN")

\* hermite.c:180-184: H_1 = 2x, one rounded multiplication.
HermiteDegreeOne(res, x, rnd) == mpfr_mul_ui(res, x, 2, rnd)

\* The test of the singular arguments without the infinities.
HermiteRejectsNaN(x) == MPFR_IS_NAN(x)

\* hermite.c:145: x is a NaN or an infinity.
HermiteRejects(x) == MPFR_IS_NAN(x) \/ MPFR_IS_INF(x)

\* hermite.c:155-161: H_0 = 1.
HermiteDegreeZero(res, rnd) == mpfr_set_ui(res, 1, rnd).val

\* hermite.c:170: n is even, as (n & 1) == 0 reads a negative n too.
HermiteEvenDegree(n) == n % 2 = 0

\* n! / (n/2)!, the value of the closed form, for an even n.
RECURSIVE RisingProduct(_, _)
RisingProduct(lo, hi) == IF lo > hi THEN 1 ELSE hi * RisingProduct(lo, hi - 1)

ClosedValue(n) == RisingProduct((n \div 2) + 1, n)

\* mpfr_exp (e, sub) of hermite.c:46-53 at precision prec: the value
\* n!/(n/2)! rounded to nearest and moved by off units in the last place.
ClosedApprox(n, prec, off) ==
  LET m == BNFromInt(ClosedValue(n))
      L == BNBitLen(m)
      r == RoundExact(Exact(1, m, 0), prec, "RNDN").val
      k == prec - BNBitLen(r.man)
      wide == BNShl(r.man, k)
      moved == IF off >= 0 THEN BNAdd(wide, BNFromInt(off))
               ELSE BNSub(wide, BNFromInt(-off))
      v == Exact(1, moved, r.exp - k)
  IN  Num("reg", 1, prec, v.man, v.exp)

\* MPFR_GET_EXP (sub), sub = ln (n!/(n/2)!): the exponent k with
\* exp (2^(k-1)) <= n!/(n/2)! < exp (2^k).
ClosedSubExp(n) ==
  LET v == ClosedValue(n)
  IN  IF v < 3 THEN 0
      ELSE IF v < 8 THEN 1
      ELSE IF v < 55 THEN 2
      ELSE IF v < 2981 THEN 3
      ELSE IF v < 8886111 THEN 4
      ELSE 5

\* The default largest exponent, MPFR_EMAX_DEFAULT = 2^30 - 1.
EMaxDefault == 1073741823

\* mpfr_exp raises the overflow flag when n!/(n/2)! >= 2^emax; this holds
\* when (n/2) * floor (log2 (n/2)) >= emax, as n!/(n/2)! >= (n/2)^(n/2).
ClosedOverflows(n) ==
  n >= 2 /\ (n \div 2) * (IntBitLen(n \div 2) - 1) >= EMaxDefault

\* hermite.c:78-82: err and test_prec of the closed form.
ClosedErr(n) ==
  LET exp_sub == ClosedSubExp(n)
  IN  IF exp_sub + 2 > 0 THEN exp_sub + 3 ELSE IF exp_sub + 2 = 0 THEN 2 ELSE 1

\* The sign taken from the parity of n instead of n/2.
ClosedSignOfDegree(res, n) == IF n % 2 = 1 THEN MPFR_SET_NEG(res) ELSE res

\* hermite.c:93-95: the sign of the closed form, (-1)^(n/2).
ClosedSign(res, n) == IF ((n \div 2) % 2) = 1 THEN MPFR_SET_NEG(res) ELSE res

(***************************************************************************)
(* src/src/hash.c: the canonical bytes of a number and its FNV digest.     *)
(* A 32-bit word is a record [hi, lo] of its two 16-bit halves, since the  *)
(* words exceed TLC's integers.  A byte string is a sequence of 0 .. 255.  *)
(***************************************************************************)
\* 2^16, the weight of the high half of an fnv32_t.
Half == 65536

U32(h, l) == [hi |-> h, lo |-> l]

\* hash.c:24-25: 0x01000193 and 0x811C9DC5.
FNV32_PRIME == U32(256, 403)
FNV32_BASIS == U32(33052, 40389)

\* The bitwise exclusive or of two natural numbers.
RECURSIVE BitXor(_, _)
BitXor(a, b) ==
  IF a = 0 THEN b
  ELSE IF b = 0 THEN a
  ELSE ((a + b) % 2) + 2 * BitXor(a \div 2, b \div 2)

\* a * b modulo 2^32, for a b whose halves are below 2^15.
Mul32(a, b) ==
  LET low == a.lo * b.lo
      cross == a.hi * b.lo + a.lo * b.hi + low \div Half
  IN  U32(cross % Half, low % Half)

\* hash.c:111-112: hash ^= bytes[i]; hash *= FNV32_PRIME.
fnv32_step(hash, byte) == Mul32(U32(hash.hi, BitXor(hash.lo, byte)), FNV32_PRIME)

\* hash.c:104-116.  An fnv32_t stays below 2^32: the test of it makes TLC
\* compute each step before it goes to the next byte.
RECURSIVE fnv32(_, _)
fnv32(hash, bytes) ==
  IF bytes = <<>> \/ hash.hi >= Half THEN hash
  ELSE fnv32(fnv32_step(hash, Head(bytes)), Tail(bytes))

\* The size bytes of the natural number v in memory, least significant first.
RECURSIVE NatBytes(_, _)
NatBytes(v, size) ==
  IF size = 0 THEN <<>> ELSE <<v % 256>> \o NatBytes(v \div 256, size - 1)

\* The size bytes of the integer v in two's complement, least significant
\* first.
ObjectBytes(v, size) ==
  IF v >= 0 THEN NatBytes(v, size)
  ELSE [k \in 1..size |-> 255 - NatBytes(-v - 1, size)[k]]

\* hash.c:61-72, for an object given least significant byte first: the bytes
\* left once the leading zero bytes are dropped, one at least.
RECURSIVE count_relevant_bytes(_)
count_relevant_bytes(b) ==
  IF Len(b) > 1 /\ b[Len(b)] = 0
    THEN count_relevant_bytes(SubSeq(b, 1, Len(b) - 1))
    ELSE Len(b)

\* hash.c:74-87.
le_relevant_bytes(b) == SubSeq(b, 1, count_relevant_bytes(b))

\* hash.c:89-93.
bytes_for(bits) == (bits + 7) \div 8

\* sizeof (mp_limb_t), sizeof (mpfr_prec_t) and sizeof (mpfr_exp_t) where
\* long has 64 bits.
SizeofLimb == GMP_NUMB_BITS \div 8
SizeofPrec == 8
SizeofExp == 8

\* MPFR_LIMB_SIZE (x): the limbs that hold a significand of x.prec bits.
MPFR_LIMB_SIZE(x) == (x.prec - 1) \div GMP_NUMB_BITS + 1

\* The byte at weight 256^k of a natural number.
ByteAt(a, k) ==
  LET s == BNShr(a, 8 * k) IN IF s = <<>> THEN 0 ELSE Head(s) % 256

\* MPFR_MANT (x): the significand fills the limbs from the top bit down and
\* the bits below it are 0.  Limb i (0 is the least significant) is given by
\* its bytes, most significant first, the order of l_bytes[limb_byte_index (j)].
LimbBytes(x, i) ==
  LET bits == MPFR_LIMB_SIZE(x) * GMP_NUMB_BITS
      mant == BNShl(x.man, bits - BNBitLen(x.man))
  IN  [j \in 1..SizeofLimb |-> ByteAt(mant, i * SizeofLimb + SizeofLimb - j)]

\* hash.c:179-188: the limbs from the last one down, while bytes are wanted.
RECURSIVE LimbLoop(_, _, _, _)
LimbLoop(x, i, out, min_prec_byte_size) ==
  IF i >= 0 /\ Len(out) <= min_prec_byte_size
    THEN LET want == min_prec_byte_size - Len(out)
             take == IF want < SizeofLimb THEN want ELSE SizeofLimb
         IN  LimbLoop(x, i - 1, out \o SubSeq(LimbBytes(x, i), 1, take),
                      min_prec_byte_size)
    ELSE out

\* hash.c:118-131 with the byte of the sign taken from the sign of a zero.
get_singular_number_signed(x) ==
  IF MPFR_IS_ZERO(x) THEN <<IF x.sign < 0 THEN 1 ELSE 0, 1, 128>>
  ELSE IF MPFR_IS_NAN(x) THEN <<0, 2, 128>>
  ELSE IF x.sign > 0 THEN <<0, 3, 128>>
  ELSE <<1, 3, 128>>

\* hash.c:53-56 and 118-131.
get_singular_number(x) ==
  IF MPFR_IS_ZERO(x) THEN <<0, 1, 128>>
  ELSE IF MPFR_IS_NAN(x) THEN <<0, 2, 128>>
  ELSE IF x.sign > 0 THEN <<0, 3, 128>>
  ELSE <<1, 3, 128>>

\* hash.c:52.
MPFR_SINGULAR_DIGEST_SIZE == 3

\* hash.c:145-188: the bytes written once the buffer is there.
non_singular_bytes(x) ==
  LET sign == IF x.sign < 0 THEN 1 ELSE 0
      exp == MPFR_GET_EXP(x)
      prec == mpfr_min_prec(x)
      min_prec_byte_size == bytes_for(prec + 1)
      head == le_relevant_bytes(ObjectBytes(sign, 1))
                \o le_relevant_bytes(ObjectBytes(prec, SizeofPrec))
                \o le_relevant_bytes(ObjectBytes(exp, SizeofExp))
  IN  head \o LimbLoop(x, MPFR_LIMB_SIZE(x) - 1, <<>>, min_prec_byte_size)

\* An mpfr_bytes_t: content is "uninit" (never assigned), "null" or "heap",
\* and data holds the bytes of a heap buffer.
Bytes(c, d, l) == [content |-> c, data |-> d, len |-> l]
NoBytes == Bytes("uninit", <<>>, 0)

\* An outcome of a call: the return value, the mpfr_bytes_t left, the
\* faults committed and whether the process went down with them.
Outcome(r, b, f, c) == [ret |-> r, bytes |-> b, fault |-> f, crash |-> c]

\* hash.c:133-193, ok telling whether malloc gave a buffer: without one the
\* function returns 0 and leaves *bytes as it was.
non_singular_unique_bytes(x, bytes, ok) ==
  IF ok
    THEN LET b == non_singular_bytes(x)
         IN  { Outcome(1, Bytes("heap", b, Len(b)), {}, FALSE) }
    ELSE { Outcome(0, bytes, {}, FALSE) }

\* hash.c:195-221.  On the singular path ret is set to 0 when malloc fails
\* and memcpy is called all the same, with the null pointer as destination:
\* the process goes down there, or goes on where the write is not trapped.
mpfr_unique_bytes(x, bytes, ok) ==
  IF MPFR_IS_SINGULAR(x)
    THEN IF ok
      THEN { Outcome(1, Bytes("heap", get_singular_number(x),
                              MPFR_SINGULAR_DIGEST_SIZE), {}, FALSE) }
      ELSE { Outcome(0, Bytes("null", <<>>, MPFR_SINGULAR_DIGEST_SIZE),
                     {"null_write"}, c) : c \in BOOLEAN }
    ELSE non_singular_unique_bytes(x, bytes, ok)

\* What a 32-bit word read from memory that was never written may hold.
GarbageDigests == { U32(0, 0) }

\* A digest handed back: "ok" when it was computed from a buffer that
\* malloc gave, "garbage" when from memory the call had no right to read.
Digest(s, v, b) == [st |-> s, val |-> v, bytes |-> b]
NoDigest == Digest("none", U32(0, 0), <<>>)

\* hash.c:231-242: the outcomes of mpfr_hash32 (x), as records
\* [digest, fault, crash].  The return value of mpfr_unique_bytes is not
\* looked at: fnv32 reads bytes.content and bytes.len and mpfr_bytes_free
\* frees bytes.content whatever they are.
mpfr_hash32(x, ok) ==
  UNION { IF u.crash
            THEN { [digest |-> NoDigest, fault |-> u.fault, crash |-> TRUE] }
          ELSE IF u.bytes.content = "heap"
            THEN { [digest |-> Digest("ok", fnv32(FNV32_BASIS, u.bytes.data),
                                      u.bytes.data),
                    fault |-> u.fault, crash |-> FALSE] }
          ELSE IF u.bytes.content = "null"
            THEN { [digest |-> NoDigest,
                    fault |-> u.fault \cup {"null_read"}, crash |-> TRUE] }
                 \cup
                 { [digest |-> Digest("garbage", g, <<>>),
                    fault |-> u.fault \cup {"null_read"}, crash |-> FALSE]
                   : g \in GarbageDigests }
          ELSE   { [digest |-> NoDigest,
                    fault |-> u.fault \cup {"uninit_read"}, crash |-> TRUE] }
                 \cup
                 { [digest |-> Digest("garbage", g, <<>>),
                    fault |-> u.fault \cup {"uninit_read", "uninit_free"},
                    crash |-> FALSE] : g \in GarbageDigests }
        : u \in mpfr_unique_bytes(x, NoBytes, ok) }

\* An mpfr_digest_ctx_t: st is "uninit" before mpfr_digest_init.
Ctx(s, h) == [st |-> s, hash |-> h]

\* hash.c:263-271.
mpfr_digest_init == Ctx("live", FNV32_BASIS)

\* An update that starts from the basis instead of the hash of the context.
mpfr_hash32_update_afresh(ctx, bytes) ==
  IF bytes.content = "null" THEN [ret |-> 0, ctx |-> ctx]
  ELSE [ret |-> 1, ctx |-> Ctx(ctx.st, fnv32(FNV32_BASIS, bytes.data))]

\* hash.c:244-254, the update_fn of the context; ctx is never null here.
mpfr_hash32_update(ctx, bytes) ==
  IF bytes.content = "null" THEN [ret |-> 0, ctx |-> ctx]
  ELSE [ret |-> 1, ctx |-> Ctx(ctx.st, fnv32(ctx.hash, bytes.data))]

\* hash.c:273-278.
mpfr_digest_update(ctx, bytes) == mpfr_hash32_update(ctx, bytes)

\* hash.c:280-293: the outcomes of mpfr_digest_update_m (ctx, x), as records
\* [ret, ctx, fed, fault, crash] with fed the bytes hashed.
mpfr_digest_update_m(ctx, x, ok) ==
  { IF u.crash
      THEN [ret |-> 0, ctx |-> ctx, fed |-> <<>>, fault |-> u.fault, crash |-> TRUE]
    ELSE IF u.ret = 0
      THEN [ret |-> 0, ctx |-> ctx, fed |-> <<>>, fault |-> u.fault, crash |-> FALSE]
    ELSE LET r == mpfr_hash32_update(ctx, u.bytes)
         IN  [ret |-> r.ret, ctx |-> r.ctx, fed |-> u.bytes.data,
              fault |-> u.fault, crash |-> FALSE]
    : u \in mpfr_unique_bytes(x, NoBytes, ok) }

\* hash.c:256-261 and 295-299.
mpfr_digest_final(ctx) == ctx.hash

(***************************************************************************)
(* The inputs explored.                                                    *)
(***************************************************************************)
\* sign * k * 2^e stored with precision p.
Reg(sign, k, e, p) ==
  LET v == Exact(sign, BNFromInt(k), e) IN Num("reg", sign, p, v.man, v.exp)

\* The sample degrees of tests/tlegendre.c:43-53.
SampleDegrees == {2, 3, 10, 50, 128, 1024, 8192, 1048576}

\* The degrees: the base cases, the degrees run to completion, a negative
\* one, the sample degrees with the ceiling of Legendre, its successor, the
\* degree 10^6 of tests/thermite.c:78 and two degrees whose closed form
\* overflows, one with n/2 even and one with n/2 odd.
Degrees ==
  (-1 .. MaxDegree) \cup SampleDegrees \cup {8193, 1000000, 100000000, 100000002}

\* The arguments x: the singular values, the bounds of [-1, 1], values
\* inside (1/2, 3/4, 1/3 rounded down to 5 bits and its opposite), values
\* outside (1 + 1/16, -3/2, 3), and 37837/2^16 and 151349/2^18, the 16-bit
\* and 18-bit values next to 1/sqrt(3), for which the two terms of P_2
\* cancel: the second one loses 20 bits at every working precision from 22.
XValues ==
  { Singular("nan", 1, 2), Singular("inf", 1, 2), Singular("inf", -1, 2),
    Singular("zero", 1, 2), Singular("zero", -1, 2),
    Reg(1, 1, 0, 2), Reg(-1, 1, 0, 2),
    Reg(1, 1, -1, 1), Reg(1, 3, -2, 2), Reg(1, 21, -6, 5), Reg(-1, 21, -6, 5),
    Reg(1, 17, -4, 5), Reg(-1, 3, -1, 2), Reg(1, 3, 0, 2),
    Reg(1, 37837, -16, 16), Reg(1, 151349, -18, 18) }

\* What the caller may have left in the result slot before the call.
StoredValues(p) == { Reg(-1, 1, 0, p) }

\* What a read of a temporary that was never assigned may give.
Garbage(p) == { Singular("nan", 1, p), Singular("zero", 1, p), Reg(1, 1, 0, p) }

VARIABLES
  pc,           \* "idle", "start", "compute", "closed", "closed_check", "done"
  fn,           \* "none", "legendre", "hermite"
  n, x, rnd,    \* the arguments of the call
  res,          \* the result slot
  res0,         \* the result slot as the call found it
  ret,          \* the ternary value returned
  realprec, err, ziv,   \* the working precision, the error estimate, the Ziv increment
  i,            \* the step of the recurrence
  p1, p2, pn, first_term, second_term,  \* the temporaries of the group
  group,        \* "none", "live", "cleared"
  e, off, overflow,     \* the closed form: e, its distance to n!/(n/2)!, the flag
  mem,          \* the counts of the initialisations and clears made so far
  inexact,      \* an operation of the current pass had a non-zero ternary value
  restarts      \* the cancellation restarts made: the step and the lost-bit count

vars_calls == <<pc, fn, n, x, rnd, res, res0, ret, realprec, err, ziv, i,
                p1, p2, pn, first_term, second_term, group, e, off, overflow, mem,
                inexact, restarts>>

args == <<fn, n, x, rnd, res0>>
temps == <<p1, p2, pn, first_term, second_term>>
closed == <<e, off, overflow>>

\* The state of the callers of src/src/hash.c.
VARIABLES
  hx, hy,       \* two numbers held by the caller
  d1, d2,       \* what the last mpfr_hash32 (hx) and mpfr_hash32 (hy) returned
  ctx,          \* the caller's mpfr_digest_ctx_t
  hlog,         \* the updates made since mpfr_digest_init, oldest first
  got,          \* what the last mpfr_digest_final stored
  faults,       \* the faults the last call committed
  crashed       \* the process went down

hvars == <<hx, hy, d1, d2, ctx, hlog, got, faults, crashed>>

\* No call of src/src/hash.c is made.
NoHashing ==
  /\ hx = Singular("nan", 1, 1) /\ hy = Singular("nan", 1, 1)
  /\ d1 = NoDigest /\ d2 = NoDigest
  /\ ctx = Ctx("uninit", U32(0, 0))
  /\ hlog = <<>>
  /\ got = NoDigest
  /\ faults = {}
  /\ crashed = FALSE

vars == <<vars_calls, hvars>>

\* mpfr_init2 (res, p): a NaN of sign +.
Init ==
  /\ pc = "idle"
  /\ fn = "none" /\ n = 0 /\ x = Singular("nan", 1, 1) /\ rnd = "RNDN"
  /\ res \in {Singular("nan", 1, p) : p \in 1..MaxPrec}
  /\ res0 = res
  /\ ret = 0
  /\ realprec = 0 /\ err = 0 /\ ziv = 0 /\ i = 0
  /\ p1 = NoTemp /\ p2 = NoTemp /\ pn = NoTemp
  /\ first_term = NoTemp /\ second_term = NoTemp
  /\ group = "none"
  /\ e = NoTemp /\ off = 0 /\ overflow = FALSE
  /\ mem = [ginit |-> 0, gclear |-> 0, dinit |-> 0, dclear |-> 0]
  /\ inexact = FALSE /\ restarts = <<>>
  /\ NoHashing

\* The caller writes the result slot before the call.
Store ==
  /\ pc = "idle" /\ MPFR_IS_NAN(res)
  /\ res' \in StoredValues(res.prec)
  /\ UNCHANGED <<hvars, restarts, inexact, mem, pc, args, ret, realprec, err, ziv, i, temps,
                 group, closed>>

\* A return before any temporary is initialised.
Return(r, t) ==
  /\ pc' = "done" /\ res' = r /\ ret' = t
  /\ UNCHANGED <<hvars, restarts, inexact, mem, realprec, err, ziv, i, temps, group,
                 closed>>

\* MPFR_GROUP_INIT_5 and MPFR_ZIV_INIT of the general path.
EnterLoop(prec, er) ==
  /\ pc' = "start" /\ realprec' = prec /\ err' = er /\ ziv' = MPFR_ZIV_INIT
  /\ p1' = Temp(prec) /\ p2' = Temp(prec) /\ pn' = Temp(prec)
  /\ first_term' = Temp(prec) /\ second_term' = Temp(prec)
  /\ group' = "live"
  /\ mem' = [mem EXCEPT !.ginit = @ + 1]
  /\ UNCHANGED <<hvars, restarts, inexact, res, ret, i, closed>>

\* mpfr_legendre, legendre.c:93-158: the classifier and the set-up of the loop.
mpfr_legendre(N, X, R) ==
  /\ pc = "idle"
  /\ fn' = "legendre" /\ n' = N /\ x' = X /\ rnd' = R /\ res0' = res
  /\ IF LegendreRejects(N, X) THEN Return(MPFR_SET_NAN(res), 0)
     ELSE IF mpfr_equal_p(X, gmpfr_one) \/ mpfr_equal_p(X, gmpfr_mone)
       THEN Return(LegendreAtBound(res, N, X, R), 0)
     ELSE IF N = 0 THEN Return(LegendreDegreeZero(res, R), 0)
     ELSE IF N = 1
       THEN \E r \in {LegendreDegreeOne(res, X, R)} : Return(r.val, r.tern)
     ELSE IF LegendreZeroOdd(N, X) THEN Return(MPFR_SET_ZERO(res), 0)
     ELSE EnterLoop(LegendreRealPrec(MPFR_PREC(res), N, X), LegendreErr(N))

\* zero_x_even_degree, hermite.c:36-43: the set-up of the closed form.
EnterClosed ==
  /\ pc' = "closed" /\ realprec' = MPFR_PREC(res) + 10
  /\ err' = MPFR_INT_CEIL_LOG2(n') + 2 /\ ziv' = MPFR_ZIV_INIT
  /\ group' = "live"
  /\ mem' = [mem EXCEPT !.ginit = @ + 1]
  /\ off' \in -MaxUlpOff .. MaxUlpOff
  /\ UNCHANGED <<hvars, restarts, inexact, res, ret, i, temps, e, overflow>>

\* mpfr_hermite, hermite.c:139-199: the classifier and the set-up of the loop.
mpfr_hermite(N, X, R) ==
  /\ pc = "idle"
  /\ fn' = "hermite" /\ n' = N /\ x' = X /\ rnd' = R /\ res0' = res
  /\ IF HermiteRejects(X) THEN Return(MPFR_SET_NAN(res), 0)
     ELSE IF N = 0 THEN Return(HermiteDegreeZero(res, R), 0)
     ELSE IF MPFR_IS_ZERO(X)
       THEN IF HermiteEvenDegree(N) THEN EnterClosed
            ELSE Return(MPFR_SET_ZERO(res), 0)
     ELSE IF N = 1
       THEN \E r \in {HermiteDegreeOne(res, X, R)} : Return(r.val, r.tern)
     ELSE EnterLoop(HermiteRealPrec(MPFR_PREC(res), MPFR_PREC(X)), HermiteErr(N))

\* The head of a pass that doubles x in place for H_1 = 2x.
StartInPlace ==
  /\ pc = "start"
  /\ pc' = "compute"
  /\ i' = IF fn = "legendre" THEN 2 ELSE 1
  /\ x' = IF fn = "legendre" THEN x ELSE mpfr_mul_ui(x, x, 2, "RNDN").val
  /\ p1' = mpfr_set(p1, x', "RNDN").val
  /\ p2' = mpfr_set_ui(p2, 1, "RNDN").val
  /\ inexact' = (mpfr_set(p1, x', "RNDN").tern # 0)
  /\ UNCHANGED <<hvars, restarts, mem, fn, n, rnd, res0, res, ret, realprec, err, ziv, pn,
                 first_term, second_term, group, closed>>

\* The head of a pass that goes on from the step the last pass had reached.
StartResumed ==
  /\ pc = "start"
  /\ pc' = "compute"
  /\ i' = IF i # 0 THEN i ELSE IF fn = "legendre" THEN 2 ELSE 1
  /\ p1' = IF fn = "legendre" THEN mpfr_set(p1, x, "RNDN").val
           ELSE mpfr_mul_ui(p1, x, 2, "RNDN").val
  /\ p2' = mpfr_set_ui(p2, 1, "RNDN").val
  /\ inexact' = IF fn = "legendre" THEN mpfr_set(p1, x, "RNDN").tern # 0
                 ELSE mpfr_mul_ui(p1, x, 2, "RNDN").tern # 0
  /\ UNCHANGED <<hvars, restarts, mem, args, res, ret, realprec, err, ziv, pn, first_term,
                 second_term, group, closed>>

\* legendre.c:161-166 and hermite.c:202-206: the head of a pass.
Start ==
  /\ pc = "start"
  /\ pc' = "compute"
  /\ i' = IF fn = "legendre" THEN 2 ELSE 1
  /\ p1' = IF fn = "legendre" THEN mpfr_set(p1, x, "RNDN").val
           ELSE mpfr_mul_ui(p1, x, 2, "RNDN").val
  /\ p2' = mpfr_set_ui(p2, 1, "RNDN").val
  /\ inexact' = IF fn = "legendre" THEN mpfr_set(p1, x, "RNDN").tern # 0
                 ELSE mpfr_mul_ui(p1, x, 2, "RNDN").tern # 0
  /\ UNCHANGED <<hvars, restarts, mem, args, res, ret, realprec, err, ziv, pn, first_term,
                 second_term, group, closed>>

\* while (i <= n) of legendre.c:167 and while (i < n) of hermite.c:207; the
\* model runs the steps of the degrees up to MaxDegree only.
InLoop ==
  /\ pc = "compute"
  /\ n <= MaxDegree
  /\ IF fn = "legendre" THEN i <= n ELSE i < n

\* legendre.c:168-209, a step without severe cancellation.
LegendreStep ==
  /\ InLoop /\ fn = "legendre"
  /\ \E t \in {LegendreTerms(x, p1, p2, i, realprec)} :
     \E lost_bits \in {likely_cancellation(t.first_term, t.second_term, realprec)} :
         /\ ~(lost_bits > realprec - MPFR_PREC(res))
         /\ \E next \in {LegendreNext(t, i, realprec)} :
              /\ first_term' = t.first_term /\ second_term' = t.second_term
              /\ pn' = next
              /\ p2' = mpfr_set(p2, p1, "RNDN").val
              /\ p1' = mpfr_set(p1, next, "RNDN").val
              /\ i' = i + 1
         /\ mem' = ScratchUse(mem, t.first_term, t.second_term, realprec)
  /\ inexact' = (inexact \/ LegendreStepInexact(x, p1, p2, i, realprec))
  /\ UNCHANGED <<hvars, restarts, pc, args, res, ret, realprec, err, ziv, group, closed>>

\* The restart with the error estimate left as it was.
LegendreRestartSameErr ==
  /\ InLoop /\ fn = "legendre"
  /\ \E t \in {LegendreTerms(x, p1, p2, i, realprec)} :
     \E lost_bits \in {likely_cancellation(t.first_term, t.second_term, realprec)} :
     \E prec \in {realprec + lost_bits + 2} :
         /\ lost_bits > realprec - MPFR_PREC(res)
         /\ prec <= MaxWorkPrec
         /\ realprec' = prec
         /\ err' = err
         /\ p1' = Temp(prec) /\ p2' = Temp(prec) /\ pn' = Temp(prec)
         /\ first_term' = Temp(prec) /\ second_term' = Temp(prec)
         /\ pc' = "start"
         /\ mem' = ScratchUse(mem, t.first_term, t.second_term, realprec)
         /\ restarts' = Append(restarts, [step |-> i, lost |-> lost_bits])
  /\ UNCHANGED <<hvars, inexact, args, res, ret, ziv, i, group, closed>>

\* The restart with the working precision left as it was.
LegendreRestartSamePrec ==
  /\ InLoop /\ fn = "legendre"
  /\ \E t \in {LegendreTerms(x, p1, p2, i, realprec)} :
     \E lost_bits \in {likely_cancellation(t.first_term, t.second_term, realprec)} :
     \E prec \in {realprec} :
         /\ lost_bits > realprec - MPFR_PREC(res)
         /\ Len(restarts) < 2
         /\ realprec' = prec
         /\ err' = err + lost_bits
         /\ p1' = Temp(prec) /\ p2' = Temp(prec) /\ pn' = Temp(prec)
         /\ first_term' = Temp(prec) /\ second_term' = Temp(prec)
         /\ pc' = "start"
         /\ mem' = ScratchUse(mem, t.first_term, t.second_term, realprec)
         /\ restarts' = Append(restarts, [step |-> i, lost |-> lost_bits])
  /\ UNCHANGED <<hvars, inexact, args, res, ret, ziv, i, group, closed>>

\* legendre.c:181-197, a severe cancellation: the precision is raised and the
\* pass starts again.
LegendreRestart ==
  /\ InLoop /\ fn = "legendre"
  /\ \E t \in {LegendreTerms(x, p1, p2, i, realprec)} :
     \E lost_bits \in {likely_cancellation(t.first_term, t.second_term, realprec)} :
     \E prec \in {realprec + lost_bits + 2} :
         /\ lost_bits > realprec - MPFR_PREC(res)
         /\ prec <= MaxWorkPrec
         /\ realprec' = prec
         /\ err' = err + lost_bits
         /\ p1' = Temp(prec) /\ p2' = Temp(prec) /\ pn' = Temp(prec)
         /\ first_term' = Temp(prec) /\ second_term' = Temp(prec)
         /\ pc' = "start"
         /\ mem' = ScratchUse(mem, t.first_term, t.second_term, realprec)
         /\ restarts' = Append(restarts, [step |-> i, lost |-> lost_bits])
  /\ UNCHANGED <<hvars, inexact, args, res, ret, ziv, i, group, closed>>

\* hermite.c:208-223, a step.
HermiteStep ==
  /\ InLoop /\ fn = "hermite"
  /\ \E t \in {HermiteNext(x, p1, p2, i, realprec)} :
         /\ first_term' = t.first_term /\ second_term' = t.second_term
         /\ pn' = t.pn
         /\ p2' = mpfr_set(p2, p1, "RNDN").val
         /\ p1' = mpfr_set(p1, t.pn, "RNDN").val
         /\ i' = i + 1
  /\ inexact' = (inexact \/ HermiteStepInexact(x, p1, p2, i, realprec))
  /\ UNCHANGED <<hvars, restarts, mem, pc, args, res, ret, realprec, err, ziv, group,
                 closed>>

\* The end of the while loop.
AtCheck ==
  /\ pc = "compute"
  /\ IF fn = "legendre" THEN ~(i <= n) ELSE ~(i < n)

\* legendre.c:211-217 and hermite.c:225-231: the test that ends Ziv's loop,
\* for a value v read from pn.
CheckPasses(v) ==
  LET test_prec == realprec - err
  IN  \/ mpfr_min_prec(v) < test_prec - 1
      \/ MPFR_CAN_ROUND(v, test_prec, MPFR_PREC(res), rnd)

\* What a read of pn gives: its value, or anything when no step assigned it.
ReadPn == IF pn.cls = "uninit" THEN Garbage(pn.prec) ELSE {pn}

\* legendre.c:223-229 and hermite.c:237-242: the final rounding and the
\* release of the temporaries.
Finish ==
  /\ AtCheck
  /\ \E v \in ReadPn :
       /\ CheckPasses(v)
       /\ \E r \in {mpfr_set(res, v, rnd)} : res' = r.val /\ ret' = r.tern
  /\ pc' = "done"
  /\ group' = "cleared"
  /\ p1' = NoTemp /\ p2' = NoTemp /\ pn' = NoTemp
  /\ first_term' = NoTemp /\ second_term' = NoTemp
  /\ mem' = [mem EXCEPT !.gclear = @ + 1]
  /\ UNCHANGED <<hvars, restarts, inexact, args, realprec, err, ziv, i, closed>>

\* legendre.c:219-221 and hermite.c:233-235: MPFR_ZIV_NEXT and
\* MPFR_GROUP_REPREC_5.
Escalate ==
  /\ AtCheck
  /\ \E v \in ReadPn : ~CheckPasses(v)
  /\ \E z \in {MPFR_ZIV_NEXT(ziv, realprec)} :
         /\ z.prec <= MaxWorkPrec
         /\ realprec' = z.prec /\ ziv' = z.loop
         /\ p1' = Temp(z.prec) /\ p2' = Temp(z.prec) /\ pn' = Temp(z.prec)
         /\ first_term' = Temp(z.prec) /\ second_term' = Temp(z.prec)
  /\ pc' = "start"
  /\ UNCHANGED <<hvars, restarts, inexact, mem, args, res, ret, err, i, group, closed>>

\* hermite.c:46-53: a pass of the closed form, run for the degrees up to
\* MaxDegree and for those whose exponentiation is known to overflow.
ClosedCompute ==
  /\ pc = "closed"
  /\ n >= 2
  /\ n <= MaxDegree \/ ClosedOverflows(n)
  /\ \E ov \in {ClosedOverflows(n)} :
       /\ overflow' = ov
       /\ e' = IF ov THEN Singular("inf", 1, realprec)
               ELSE ClosedApprox(n, realprec, off)
  /\ pc' = "closed_check"
  /\ UNCHANGED <<hvars, restarts, inexact, mem, args, res, ret, realprec, err, ziv, i,
                 temps, group, off>>

\* MPFR_ZIV_FREE and MPFR_GROUP_CLEAR at the label clear, hermite.c:97-101.
ClosedReturn(r, t) ==
  /\ pc' = "done" /\ res' = r /\ ret' = t
  /\ group' = "cleared"
  /\ mem' = [mem EXCEPT !.gclear = @ + 1]
  /\ UNCHANGED <<hvars, restarts, inexact, args, realprec, ziv, i, temps, closed>>

\* The overflow exit taken after the sign assignment instead of around it.
ClosedOverflowSigned(r, k) == ClosedSign(MPFR_SET_NAN(r), k)

\* hermite.c:59: the result of the overflow exit; the sign assignment of
\* hermite.c:94-95 is jumped over.
ClosedOverflowResult(r, k) == MPFR_SET_NAN(r)

\* hermite.c:57-62: the overflow of the exponentiation.
ClosedOverflow ==
  /\ pc = "closed_check" /\ overflow
  /\ err' = err
  /\ ClosedReturn(ClosedOverflowResult(res, n), 0)

ClosedCheckPasses ==
  LET test_prec == realprec - ClosedErr(n)
  IN  \/ mpfr_min_prec(e) < test_prec - 1
      \/ MPFR_CAN_ROUND(e, test_prec, MPFR_PREC(res), rnd)

\* hermite.c:78-95: the test passes; the final rounding and the sign.
ClosedFinish ==
  /\ pc = "closed_check" /\ ~overflow
  /\ ClosedCheckPasses
  /\ err' = ClosedErr(n)
  /\ \E r \in {mpfr_set(res, e, rnd)} : ClosedReturn(ClosedSign(r.val, n), r.tern)

\* hermite.c:84-89: the test fails; the for loop goes round with realprec
\* as it was.
ClosedRetry ==
  /\ pc = "closed_check" /\ ~overflow
  /\ ~ClosedCheckPasses
  /\ err' = ClosedErr(n)
  /\ pc' = "closed"
  /\ UNCHANGED <<hvars, restarts, inexact, mem, args, res, ret, realprec, ziv, i, temps,
                 group, closed>>

Call ==
  \E N \in Degrees, X \in XValues, R \in Rnd :
    mpfr_legendre(N, X, R) \/ mpfr_hermite(N, X, R)

Next ==
  \/ Store
  \/ Call
  \/ Start
  \/ LegendreStep
  \/ LegendreRestart
  \/ HermiteStep
  \/ Finish
  \/ Escalate
  \/ ClosedCompute
  \/ ClosedOverflow
  \/ ClosedFinish
  \/ ClosedRetry

Spec == Init /\ [][Next]_vars

(***************************************************************************)
(* The callers of src/src/hash.c.  A behaviour holds two numbers hx and hy *)
(* and makes any sequence of calls on them with one digest context; malloc *)
(* may fail in any call.                                                   *)
(***************************************************************************)
\* No call of mpfr_legendre or mpfr_hermite is in progress.
NoCall ==
  /\ pc = "idle"
  /\ fn = "none" /\ n = 0 /\ x = Singular("nan", 1, 1) /\ rnd = "RNDN"
  /\ res = Singular("nan", 1, 1)
  /\ res0 = res
  /\ ret = 0
  /\ realprec = 0 /\ err = 0 /\ ziv = 0 /\ i = 0
  /\ p1 = NoTemp /\ p2 = NoTemp /\ pn = NoTemp
  /\ first_term = NoTemp /\ second_term = NoTemp
  /\ group = "none"
  /\ e = NoTemp /\ off = 0 /\ overflow = FALSE
  /\ mem = [ginit |-> 0, gclear |-> 0, dinit |-> 0, dclear |-> 0]
  /\ inexact = FALSE /\ restarts = <<>>

\* 1 stored with precision p.
One(p) == Reg(1, 1, 0, p)

\* 2^GMP_NUMB_BITS - 1, a significand that fills a limb, stored with
\* precision p.
AllOnes(p) == Num("reg", 1, p, BNSub(BNPow2(GMP_NUMB_BITS), <<1>>), 0)

\* mpfr_const_pi rounded down to 50 bits (tests/thash.c:294-295), stored
\* with precision p: 884279719003555 / 2^48.
Pi50(p) ==
  Num("reg", 1, p, BNAdd(BNShl(BNFromInt(26353589), 25), BNFromInt(8947107)), -48)

\* tests/thash.c:25: the digest 126454210 of Pi50 (50).
H_PI == U32(1929, 35266)

\* The pairs of numbers held: the same value stored with two precisions
\* (1 at the precisions of tests/thash.c:208-249, a significand of one full
\* limb, pi, 1/4), opposite values, and the singular values of either sign
\* at the precisions of tests/thash.c:47-74.
HashPairs ==
  { <<One(1), One(20)>>, <<One(1), One(50)>>, <<One(1), One(80)>>,
    <<AllOnes(64), AllOnes(65)>>, <<AllOnes(65), AllOnes(128)>>,
    <<Pi50(50), Pi50(53)>>,
    <<Reg(1, 1, -2, 2), Reg(1, 1, -2, 70)>>,
    <<One(1), Reg(-1, 1, 0, 1)>>,
    <<Singular("zero", 1, 200), Singular("zero", -1, 200)>>,
    <<Singular("zero", 1, 1), Singular("zero", 1, 2)>>,
    <<Singular("nan", 1, 200), Singular("nan", -1, 200)>>,
    <<Singular("nan", 1, 1), Singular("nan", 1, 2)>>,
    <<Singular("inf", 1, 200), Singular("inf", -1, 200)>>,
    <<Singular("inf", 1, 1), Singular("inf", 1, 2)>>,
    <<Singular("inf", -1, 1), Singular("inf", -1, 2)>> }

\* tests/thash.c:349-352: "Calculate the digest of " and "chunked bytes.".
Chunk1 ==
  <<67, 97, 108, 99, 117, 108, 97, 116, 101, 32, 116, 104, 101, 32, 100, 105,
    103, 101, 115, 116, 32, 111, 102, 32>>
Chunk2 == <<99, 104, 117, 110, 107, 101, 100, 32, 98, 121, 116, 101, 115, 46>>

\* tests/thash.c:353: the digest 708666724 of the two chunks.
H_CHUNKS == U32(10813, 25956)

\* The data handed to mpfr_digest_update: a chunk, or a null pointer.
Chunks ==
  { Bytes("heap", Chunk1, Len(Chunk1)), Bytes("heap", Chunk2, Len(Chunk2)),
    Bytes("null", <<>>, 0) }

\* An update of the context: what was called, what it returned and the
\* bytes it hashed.
Update(k, r, d) == [kind |-> k, ret |-> r, data |-> d]

\* The bytes fed to the context by the updates of a log, in order.
RECURSIVE Fed(_)
Fed(log) == IF log = <<>> THEN <<>> ELSE Head(log).data \o Fed(Tail(log))

HashInit ==
  /\ NoCall
  /\ \E p \in HashPairs : hx = p[1] /\ hy = p[2]
  /\ d1 = NoDigest /\ d2 = NoDigest
  /\ ctx = Ctx("uninit", U32(0, 0))
  /\ hlog = <<>>
  /\ got = NoDigest
  /\ faults = {}
  /\ crashed = FALSE

\* The caller calls mpfr_hash32 (hx).
Hash32X ==
  /\ ~crashed
  /\ \E ok \in BOOLEAN : \E h \in mpfr_hash32(hx, ok) :
       /\ d1' = h.digest
       /\ faults' = h.fault
       /\ crashed' = h.crash
  /\ UNCHANGED <<vars_calls, hx, hy, d2, ctx, hlog, got>>

\* The caller calls mpfr_hash32 (hy).
Hash32Y ==
  /\ ~crashed
  /\ \E ok \in BOOLEAN : \E h \in mpfr_hash32(hy, ok) :
       /\ d2' = h.digest
       /\ faults' = h.fault
       /\ crashed' = h.crash
  /\ UNCHANGED <<vars_calls, hx, hy, d1, ctx, hlog, got>>

\* The caller calls mpfr_digest_init with mpfr_hash32_update and
\* mpfr_hash32_final.
DigestInit ==
  /\ ~crashed /\ ctx.st = "uninit"
  /\ ctx' = mpfr_digest_init
  /\ faults' = {}
  /\ UNCHANGED <<vars_calls, hx, hy, d1, d2, hlog, got, crashed>>

\* The caller calls mpfr_digest_update on a chunk.
DigestUpdate ==
  /\ ~crashed /\ ctx.st = "live" /\ Len(hlog) < MaxUpdates
  /\ \E c \in Chunks : \E r \in {mpfr_digest_update(ctx, c)} :
       /\ ctx' = r.ctx
       /\ hlog' = Append(hlog, Update("bytes", r.ret, IF r.ret = 1 THEN c.data ELSE <<>>))
  /\ faults' = {}
  /\ UNCHANGED <<vars_calls, hx, hy, d1, d2, got, crashed>>

\* The caller calls mpfr_digest_update_m (&ctx, hx).
DigestUpdateM ==
  /\ ~crashed /\ ctx.st = "live" /\ Len(hlog) < MaxUpdates
  /\ \E ok \in BOOLEAN : \E r \in mpfr_digest_update_m(ctx, hx, ok) :
       /\ ctx' = r.ctx
       /\ hlog' = Append(hlog, Update("m", r.ret, IF r.ret = 1 THEN r.fed ELSE <<>>))
       /\ faults' = r.fault
       /\ crashed' = r.crash
  /\ UNCHANGED <<vars_calls, hx, hy, d1, d2, got>>

\* The caller calls mpfr_digest_final.
DigestFinal ==
  /\ ~crashed /\ ctx.st = "live"
  /\ got' = Digest("ok", mpfr_digest_final(ctx), Fed(hlog))
  /\ faults' = {}
  /\ UNCHANGED <<vars_calls, hx, hy, d1, d2, ctx, hlog, crashed>>

HashNext ==
  \/ Hash32X
  \/ Hash32Y
  \/ DigestInit
  \/ DigestUpdate
  \/ DigestUpdateM
  \/ DigestFinal

HashSpec == HashInit /\ [][HashNext]_vars


(***************************************************************************)
(* The properties.  A behaviour holds one call: fn, n, x and rnd are its   *)
(* arguments, MPFR_PREC (res) is the target precision, and pc = "done"     *)
(* with res and ret is its return.                                         *)
(***************************************************************************)
\* The call has returned.
Returned == pc = "done"

\* The call has returned a NaN with the ternary value 0 and has set up no
\* temporary.
RejectedAsNaN == Returned /\ MPFR_IS_NAN(res) /\ ret = 0 /\ group = "none"

\* v is 1 or -1 according to s.
IsUnit(v, s) == v.cls = "reg" /\ v.sign = s /\ v.man = <<1>> /\ v.exp = 0

\* v is a number of [-1, 1]: a zero, a regular number below 1 in magnitude
\* (its exponent is at most 0), or 1 or -1.
InUnitInterval(v) ==
  \/ MPFR_IS_ZERO(v)
  \/ (v.cls = "reg" /\ MPFR_GET_EXP(v) <= 0)
  \/ IsUnit(v, 1) \/ IsUnit(v, -1)

\* v is a number of (-1, 1).
StrictlyInside(v) == InUnitInterval(v) /\ ~IsUnit(v, 1) /\ ~IsUnit(v, -1)

\* a and b hold the same number (a zero with its sign).
SameValue(a, b) == a.cls = b.cls /\ a.sign = b.sign /\ a.man = b.man /\ a.exp = b.exp

\* v fits p bits.
Representable(v, p) == MPFR_IS_SINGULAR(v) \/ BNBitLen(v.man) <= p

Sgn(k) == IF k > 0 THEN 1 ELSE IF k < 0 THEN -1 ELSE 0

C2_LegendreDomain ==
  (fn = "legendre" /\ 0 <= n /\ n <= 8192) =>
    /\ ~InUnitInterval(x) => RejectedAsNaN
    /\ (InUnitInterval(x) /\ Returned) => ~MPFR_IS_NAN(res)

\* mpfr_legendre (2, 1 + 1/16) has returned NaN.
C2_Witness ==
  /\ fn = "legendre" /\ n = 2 /\ SameValue(x, Reg(1, 17, -4, 5))
  /\ RejectedAsNaN

\* C3: for either function a degree above 8192 is rejected whatever x is:
\* the result is NaN, the ternary value 0, and neither the recurrence nor
\* the closed form is started.
C3_DegreeCeiling ==
  (fn # "none" /\ n > 8192) => RejectedAsNaN

\* C4 as the specification states it: P_n(1) = 1 and P_n(-1) = (-1)^n with
\* the ternary value 0 for every n >= 0.
C4_AtBoundsAnyDegree ==
  (fn = "legendre" /\ n >= 0 /\ (IsUnit(x, 1) \/ IsUnit(x, -1))) =>
    /\ Returned /\ ret = 0
    /\ IsUnit(res, IF IsUnit(x, -1) /\ n % 2 = 1 THEN -1 ELSE 1)

\* C4: for mpfr_legendre, every degree 0 <= n <= 8192, every target
\* precision and rounding mode, P_n(1) = 1 and P_n(-1) = (-1)^n, each with
\* the ternary value 0; above 8192 the result is NaN.
C4_AtBounds ==
  (fn = "legendre" /\ n >= 0 /\ (IsUnit(x, 1) \/ IsUnit(x, -1))) =>
    IF n <= 8192
    THEN /\ Returned /\ ret = 0 /\ group = "none"
         /\ IsUnit(res, IF IsUnit(x, -1) /\ n % 2 = 1 THEN -1 ELSE 1)
    ELSE RejectedAsNaN

\* mpfr_legendre (3, -1) has returned -1 at a target precision of 1 bit.
C4_Witness ==
  /\ fn = "legendre" /\ n = 3 /\ IsUnit(x, -1) /\ MPFR_PREC(res) = 1
  /\ Returned /\ IsUnit(res, -1) /\ ret = 0

\* C5: for n = 0 and every x that is neither NaN nor infinite (and in
\* [-1, 1] for mpfr_legendre), +0 and -0 included, both functions set the
\* result to 1 exactly and return 0, at every precision and rounding mode.
C5_DegreeZero ==
  (/\ fn # "none" /\ n = 0
   /\ ~MPFR_IS_NAN(x) /\ ~MPFR_IS_INF(x)
   /\ fn = "legendre" => InUnitInterval(x)) =>
    (Returned /\ IsUnit(res, 1) /\ ret = 0 /\ group = "none")

\* mpfr_legendre (0, -0) has returned 1.
C5_Witness ==
  /\ fn = "legendre" /\ n = 0 /\ MPFR_IS_ZERO(x) /\ MPFR_SIGN(x) = -1
  /\ Returned /\ IsUnit(res, 1) /\ ret = 0

\* C6 as the specification states it: mpfr_legendre with n = 1 and x in
\* (-1, 1) returns x itself and 0 at every target precision.
C6_DegreeOneAlwaysExact ==
  (fn = "legendre" /\ n = 1 /\ StrictlyInside(x)) =>
    (Returned /\ SameValue(res, x) /\ ret = 0)

\* C6: mpfr_legendre with n = 1 and x in (-1, 1) returns x itself and the
\* ternary value 0 whenever x fits the target precision (as when the target
\* precision is at least that of x); when x does not fit, the result differs
\* from x and the ternary value is not 0.
C6_DegreeOneExact ==
  (fn = "legendre" /\ n = 1 /\ StrictlyInside(x)) =>
    /\ Returned /\ group = "none"
    /\ Representable(x, MPFR_PREC(res)) => (SameValue(res, x) /\ ret = 0)
    /\ MPFR_PREC(res) >= MPFR_PREC(x) => Representable(x, MPFR_PREC(res))
    /\ ~Representable(x, MPFR_PREC(res)) => (~SameValue(res, x) /\ ret # 0)

\* mpfr_legendre (1, 3/4) has returned 3/4 at a target precision of 2 bits.
C6_Witness ==
  /\ fn = "legendre" /\ n = 1 /\ SameValue(x, Reg(1, 3, -2, 2))
  /\ MPFR_PREC(res) = 2
  /\ Returned /\ SameValue(res, x) /\ ret = 0

\* C7: when the result is not exact, the sign of the ternary value is the
\* sign of (result - exact value): for mpfr_legendre with n = 1 and an x that
\* does not fit the target precision, the ternary value is positive when the
\* value is rounded up (RNDU, RNDA for x > 0, RNDN when the nearest is above)
\* and negative under RNDZ and RNDD for x > 0.
C7_TernarySign ==
  (fn = "legendre" /\ n = 1 /\ x.cls = "reg" /\ StrictlyInside(x)) =>
    /\ Returned /\ res.cls = "reg"
    /\ Sgn(ret) = ExactCmp(ExactOf(res), ExactOf(x))
    /\ (MPFR_SIGN(x) = 1 /\ ~Representable(x, MPFR_PREC(res))) =>
         /\ rnd \in {"RNDU", "RNDA"} => ret > 0
         /\ rnd \in {"RNDZ", "RNDD"} => ret < 0
         /\ rnd = "RNDN" => ret # 0

\* mpfr_legendre (1, 21/64) at 2 bits under RNDD has returned 1/4 and a
\* negative ternary value.
C7_Witness ==
  /\ fn = "legendre" /\ n = 1 /\ SameValue(x, Reg(1, 21, -6, 5))
  /\ MPFR_PREC(res) = 2 /\ rnd = "RNDD"
  /\ Returned /\ SameValue(res, Reg(1, 1, -2, 2)) /\ ret < 0

\* C8: for mpfr_hermite with n = 1 and a finite non-zero x the result is 2x
\* rounded once to the target precision in the rounding mode asked (it fits
\* the precision, lies less than one unit in the last place from 2x, at most
\* half of one under RNDN, on the side the mode names), the ternary value is
\* the sign of (result - 2x), and it is 0 whenever the target precision is at
\* least the precision of x.
C8_HermiteDegreeOne ==
  (fn = "hermite" /\ n = 1 /\ x.cls = "reg") =>
    LET two_x == Exact(x.sign, x.man, x.exp + 1)
        d == ExactAdd(ExactOf(res), ExactNeg(two_x))
        ulp == Exact(1, <<1>>, MPFR_GET_EXP(x) + 1 - MPFR_PREC(res))
    IN  /\ Returned /\ group = "none" /\ res.cls = "reg"
        /\ Representable(res, MPFR_PREC(res))
        /\ Sgn(ret) = ExactCmp(ExactOf(res), two_x)
        /\ d.man # <<>> => CmpMag(d, ulp) < 0
        /\ (rnd = "RNDN" /\ d.man # <<>>) => CmpMag(Exact(1, d.man, d.exp + 1), ulp) <= 0
        /\ rnd = "RNDU" => ret >= 0
        /\ rnd = "RNDD" => ret <= 0
        /\ rnd = "RNDZ" => ret * MPFR_SIGN(x) <= 0
        /\ rnd = "RNDA" => ret * MPFR_SIGN(x) >= 0
        /\ Representable(x, MPFR_PREC(res)) <=> ret = 0
        /\ MPFR_PREC(res) >= MPFR_PREC(x) => ret = 0

\* mpfr_hermite (1, 21/64) at 2 bits under RNDU has returned 3/4 and a
\* positive ternary value.
C8_Witness ==
  /\ fn = "hermite" /\ n = 1 /\ SameValue(x, Reg(1, 21, -6, 5))
  /\ MPFR_PREC(res) = 2 /\ rnd = "RNDU"
  /\ Returned /\ SameValue(res, Reg(1, 3, -2, 2)) /\ ret > 0

\* C9 as the specification states it: for x = 0 and every odd degree both
\* functions return a zero and the ternary value 0.
C9_ZeroOddAnyDegree ==
  (fn # "none" /\ MPFR_IS_ZERO(x) /\ n >= 1 /\ n % 2 = 1) =>
    (Returned /\ MPFR_IS_ZERO(res) /\ ret = 0 /\ group = "none")

\* C9: for x = 0 of either sign and an odd degree n, 1 <= n <= 8192 for
\* mpfr_legendre and any odd n >= 1 for mpfr_hermite, the result is a zero
\* and the ternary value 0 in every rounding mode, with neither the
\* recurrence nor the closed form entered; mpfr_legendre with an odd
\* n > 8192 returns NaN.
C9_ZeroOdd ==
  (fn # "none" /\ MPFR_IS_ZERO(x) /\ n >= 1 /\ n % 2 = 1) =>
    IF fn = "legendre" /\ n > 8192 THEN RejectedAsNaN
    ELSE Returned /\ MPFR_IS_ZERO(res) /\ ret = 0 /\ group = "none"

\* mpfr_legendre (3, +0) has returned a zero.
C9_Witness ==
  /\ fn = "legendre" /\ n = 3 /\ MPFR_IS_ZERO(x) /\ MPFR_SIGN(x) = 1
  /\ Returned /\ MPFR_IS_ZERO(res) /\ ret = 0

\* C10: for mpfr_hermite with x = 0 and an even n >= 2 whose closed form
\* does not overflow, the result is negative exactly when n/2 is odd,
\* whatever the rounding mode and the rounding of the magnitude.
C10_ClosedFormSign ==
  (/\ fn = "hermite" /\ MPFR_IS_ZERO(x) /\ n >= 2 /\ n % 2 = 0
   /\ Returned /\ ~overflow) =>
    /\ res.cls = "reg"
    /\ MPFR_SIGN(res) = -1 <=> (n \div 2) % 2 = 1

\* H_2(0) = -2 has been returned under RNDU.
C10_Witness ==
  /\ fn = "hermite" /\ n = 2 /\ MPFR_IS_ZERO(x) /\ rnd = "RNDU"
  /\ Returned /\ ~overflow /\ SameValue(res, Reg(-1, 1, 1, MPFR_PREC(res)))

\* H_n(0) = (-1)^(n/2) * n!/(n/2)! for an even n >= 2, as an exact value.
HermiteAtZero(k) ==
  Exact(IF (k \div 2) % 2 = 1 THEN -1 ELSE 1, BNFromInt(ClosedValue(k)), 0)

\* C11: for mpfr_hermite with x = 0 and an even n whose value H_n(0) does not
\* fit the target precision, the result is H_n(0) rounded in the mode asked
\* and the ternary value has the sign of (result - H_n(0)); under RNDU the
\* result is at least H_n(0) and the ternary value is not negative, under
\* RNDD the result is at most H_n(0) and the ternary value is not positive.
C11_ClosedFormRounding ==
  (/\ fn = "hermite" /\ MPFR_IS_ZERO(x) /\ n >= 2 /\ n % 2 = 0
   /\ Returned /\ ~overflow
   /\ BNBitLen(HermiteAtZero(n).man) > MPFR_PREC(res)) =>
    /\ res.cls = "reg"
    /\ Sgn(ret) = ExactCmp(ExactOf(res), HermiteAtZero(n))
    /\ rnd = "RNDU" => (ExactCmp(ExactOf(res), HermiteAtZero(n)) >= 0 /\ ret >= 0)
    /\ rnd = "RNDD" => (ExactCmp(ExactOf(res), HermiteAtZero(n)) <= 0 /\ ret <= 0)

\* C12: in the closed form of mpfr_hermite, when the exponentiation raises
\* the overflow flag the call returns NaN and the ternary value 0: the final
\* rounding and the sign assignment are skipped (the slot is the one the call
\* found with its class set to NaN), and the Ziv state and the temporaries
\* are released.
C12_ClosedFormOverflow ==
  /\ (pc = "closed_check" /\ overflow) => group = "live"
  /\ (fn = "hermite" /\ Returned /\ overflow) =>
       /\ res = MPFR_SET_NAN(res0) /\ ret = 0
       /\ group = "cleared"

\* mpfr_hermite (100000002, 0), n/2 odd, has returned NaN by the overflow
\* exit and the sign + of the slot is the one the call found.
C12_Witness ==
  /\ fn = "hermite" /\ n = 100000002 /\ MPFR_IS_ZERO(x)
  /\ Returned /\ overflow /\ MPFR_IS_NAN(res) /\ MPFR_SIGN(res) = 1 /\ ret = 0
  /\ group = "cleared"

\* x is 1/2.
IsHalf(v) == v.cls = "reg" /\ v.sign = 1 /\ v.man = <<1>> /\ v.exp = -1

\* The call went past the classifier to the general path.
Proceeded == group # "none"

FreshSlot(p) == Singular("nan", 1, p)

\* C14: the result slot is fully overwritten and keeps its precision: what
\* a call leaves in it (class, sign, the sign of a zero included, exponent
\* and significand) depends on n, x, the precision and the rounding mode
\* only, hence is what the same call leaves in a slot of that precision that
\* held nothing before.  Stated for the zero of an odd degree at x = 0,
\* which the call writes with MPFR_SET_ZERO.
C14_FullyOverwritten ==
  Returned =>
    /\ MPFR_PREC(res) = MPFR_PREC(res0)
    /\ (/\ MPFR_IS_ZERO(x) /\ n >= 1 /\ n % 2 = 1 /\ ~(fn = "legendre" /\ n = 1)
        /\ MPFR_IS_ZERO(res)) =>
         res = MPFR_SET_ZERO(FreshSlot(MPFR_PREC(res)))

\* C15: x is never mutated: from the entry of mpfr_legendre or mpfr_hermite
\* on, through the short returns, every step and pass of the recurrence,
\* every escalation and cancellation restart and the closed form, the value
\* and the precision of x stay those of the entry (x and res being distinct
\* objects).
C15_ArgumentKept == [][fn # "none" => x' = x]_vars

\* mpfr_legendre (2, 37837/2^16) has returned after a cancellation restart
\* (the working precision was raised from 16 to 34 bits) and x is the 16-bit
\* number of the entry.
C15_Witness ==
  /\ fn = "legendre" /\ n = 2 /\ Returned /\ group = "cleared"
  /\ realprec >= 34
  /\ x = Reg(1, 37837, -16, 16)

\* C16: temporaries are released on every exit path: a return made by the
\* classifier comes before any initialisation; once the group of
\* temporaries is initialised (general paths, closed form) it is cleared
\* exactly once, before the return and after any number of escalations and
\* cancellation restarts; and every call of likely_cancellation that
\* initialises its scratch difference clears it before it returns.
C16_TemporariesReleased ==
  /\ mem.dinit = mem.dclear
  /\ mem.ginit <= 1 /\ mem.gclear <= mem.ginit
  /\ Returned => mem.gclear = mem.ginit
  /\ (Returned /\ mem.ginit = 0) =>
       (group = "none" /\ temps = <<NoTemp, NoTemp, NoTemp, NoTemp, NoTemp>>)
  /\ (Returned /\ mem.ginit = 1) =>
       (group = "cleared" /\ temps = <<NoTemp, NoTemp, NoTemp, NoTemp, NoTemp>>)
  /\ pc \in {"start", "compute", "closed", "closed_check"} =>
       (group = "live" /\ mem.ginit = 1 /\ mem.gclear = 0)

\* mpfr_legendre (2, 37837/2^16) has returned after a cancellation restart:
\* the group was initialised and cleared once, and likely_cancellation
\* initialised and cleared its difference twice.
C16_Witness ==
  /\ fn = "legendre" /\ n = 2 /\ x = Reg(1, 37837, -16, 16)
  /\ Returned /\ realprec >= 34
  /\ mem = [ginit |-> 1, gclear |-> 1, dinit |-> 2, dclear |-> 2]

(***************************************************************************)
(* The properties of src/src/hash.c, over the behaviours of HashSpec.      *)
(***************************************************************************)
\* C17: an allocation failure is checked before the buffer is used: when
\* malloc fails, mpfr_unique_bytes writes nothing through the null pointer,
\* and neither mpfr_hash32 nor mpfr_digest_update_m reads, hashes or frees
\* the buffer of a failed mpfr_unique_bytes: no call commits a fault.
C17_AllocationChecked == faults = {}

\* C18: mpfr_hash32 depends on the value only: two regular numbers of the
\* same value stored with different precisions give the same canonical
\* bytes and the same digest.
C18_PrecisionIndependent ==
  (hx.cls = "reg" /\ SameValue(hx, hy) /\ d1.st = "ok" /\ d2.st = "ok")
    => (d1.bytes = d2.bytes /\ d1.val = d2.val)

\* Two singular values of one class: two zeros, two NaNs, or two infinities
\* of the same sign.
SameClass(a, b) ==
  /\ MPFR_IS_SINGULAR(a) /\ a.cls = b.cls
  /\ MPFR_IS_INF(a) => a.sign = b.sign

\* C19: the digest of a singular value depends on its class only: two zeros,
\* two NaNs, two +Inf or two -Inf have one digest whatever their signs (for
\* zeros and NaNs) and precisions, and +Inf and -Inf have different digests.
C19_SingularDigest ==
  (d1.st = "ok" /\ d2.st = "ok") =>
    /\ SameClass(hx, hy) => d1.val = d2.val
    /\ (MPFR_IS_INF(hx) /\ MPFR_IS_INF(hy) /\ hx.sign # hy.sign) => d1.val # d2.val

\* +Inf and -Inf have been hashed.
C19_Witness ==
  /\ MPFR_IS_INF(hx) /\ MPFR_IS_INF(hy) /\ hx.sign # hy.sign
  /\ d1.st = "ok" /\ d2.st = "ok" /\ d1.val # d2.val

\* C20: incremental hashing is one-shot hashing: after mpfr_digest_init and
\* any updates, the context holds, and mpfr_digest_final gives, the FNV
\* digest modulo 2^32 of the concatenation of the bytes fed, however they
\* were split (708666724 for the two chunks of tests/thash.c); and one
\* mpfr_digest_update_m (hx) on a fresh context followed by
\* mpfr_digest_final gives the digest mpfr_hash32 (hx) gives.
C20_IncrementalIsOneShot ==
  /\ ctx.st = "live" => ctx.hash = fnv32(FNV32_BASIS, Fed(hlog))
  /\ got.st = "ok" => got.val = fnv32(FNV32_BASIS, got.bytes)
  /\ (got.st = "ok" /\ got.bytes = Chunk1 \o Chunk2) => got.val = H_CHUNKS
  /\ ( /\ got.st = "ok" /\ d1.st = "ok"
       /\ Len(hlog) = 1 /\ hlog[1].kind = "m" /\ hlog[1].ret = 1
       /\ got.bytes = Fed(hlog) ) => got.val = d1.val

\* pi has been hashed in one call and through a context, with the digest
\* of tests/thash.c:25.
C20_Witness ==
  /\ hx = Pi50(50)
  /\ hlog = <<Update("m", 1, d1.bytes)>>
  /\ got.st = "ok" /\ got.bytes = Fed(hlog)
  /\ d1.st = "ok" /\ d1.val = H_PI /\ got.val = H_PI

\* C21: in every escalation loop (the general paths of mpfr_legendre and
\* mpfr_hermite and the closed form zero_x_even_degree), a pass whose test
\* fails is followed by a pass at a strictly higher working precision: no
\* failed pass is repeated as it was.
C21_StrictEscalation ==
  [][(pc \in {"compute", "closed_check"} /\ pc' \in {"start", "closed"})
       => realprec' > realprec]_vars

\* The first step of a pass: 2 for mpfr_legendre, 1 for mpfr_hermite.
BaseStep == IF fn = "legendre" THEN 2 ELSE 1

\* The window at the head of a pass at precision prec: p1 = x or 2x.
BaseP1(prec) ==
  IF fn = "legendre" THEN mpfr_set(Temp(prec), x, "RNDN").val
  ELSE mpfr_mul_ui(Temp(prec), x, 2, "RNDN").val

\* C22: every retry restarts the recurrence from the base cases at the new
\* precision: after MPFR_ZIV_NEXT or a cancellation restart the five
\* temporaries hold no value and have the new precision; the pass then
\* begins at step 2 (Legendre) or 1 (Hermite) with p1 = x or 2x and p2 = 1
\* rounded to the new precision, and every term a pass reads was computed
\* at the working precision of that pass.
C22_RestartFromBase ==
  /\ pc = "start" =>
       \A t \in {p1, p2, pn, first_term, second_term} : t = Temp(realprec)
  /\ pc = "compute" =>
       /\ \A t \in {p1, p2, pn, first_term, second_term} :
            t.cls = "uninit" \/ t.prec = realprec
       /\ p1.cls # "uninit" /\ p2.cls # "uninit"
       /\ i >= BaseStep
       /\ pn.cls = "uninit" =>
            /\ i = BaseStep
            /\ p1 = BaseP1(realprec)
            /\ p2 = mpfr_set_ui(Temp(realprec), 1, "RNDN").val

\* A pass has begun again after MPFR_ZIV_NEXT raised the precision.
C22_Witness ==
  /\ pc = "compute" /\ n >= 2 /\ ziv # MPFR_ZIV_INIT
  /\ i = BaseStep /\ pn = Temp(realprec)
  /\ p1 = BaseP1(realprec)

\* C23: in mpfr_legendre the subtraction first_term - second_term of step i
\* is made only when the lost-bit count measured just before it is at most
\* realprec - MPFR_PREC (res), and pn then becomes its quotient by i;
\* otherwise the subtraction is not made (pn holds no value afterwards),
\* realprec grows by lost_bits + 2, err by lost_bits, the five temporaries
\* are re-precisioned, and the next thing done is the head of a pass, i = 2,
\* without a test of the result in between.
C23_CancellationGuard ==
  [][ /\ (fn = "legendre" /\ InLoop) =>
           LET t == LegendreTerms(x, p1, p2, i, realprec)
               lost_bits == likely_cancellation(t.first_term, t.second_term, realprec)
           IN  IF lost_bits <= realprec - MPFR_PREC(res)
               THEN /\ pn' = LegendreNext(t, i, realprec)
                    /\ i' = i + 1 /\ pc' = "compute"
                    /\ realprec' = realprec /\ err' = err
               ELSE /\ realprec' = realprec + lost_bits + 2
                    /\ err' = err + lost_bits
                    /\ \A v \in {p1', p2', pn', first_term', second_term'} :
                         v = Temp(realprec')
                    /\ pc' = "start" /\ res' = res
      /\ (fn = "legendre" /\ pc = "start") => (pc' = "compute" /\ i' = 2)
    ]_vars

\* A cancellation restart has been made: the precision and the error
\* estimate are above their initial values and no Ziv step was taken.
C23_Witness ==
  /\ fn = "legendre" /\ pc = "start" /\ ziv = MPFR_ZIV_INIT
  /\ realprec > LegendreRealPrec(MPFR_PREC(res), n, x)
  /\ err > LegendreErr(n)
  /\ pn = Temp(realprec)

\* The state the set-up of a general path leaves: no pass has begun.
AfterSetUp == pc = "start" /\ i = 0

\* The static guard-bit estimate of a family for the degree n.
StaticGuardBits ==
  IF fn = "legendre" THEN LegendreLoopErr(n) ELSE error_extra_bits(ToUnsigned(n))

\* C24: the working precision chosen on entry of a general path is at least
\* max (target precision, precision of x) plus the static guard-bit
\* estimate of the degree, 7n + 1 for mpfr_legendre and error_extra_bits (n)
\* for mpfr_hermite, for every n >= 2 and every pair of precisions.
C24_InitialGuardBits ==
  (AfterSetUp /\ n >= 2) =>
    LET wide == IF MPFR_PREC(x) > MPFR_PREC(res) THEN MPFR_PREC(x) ELSE MPFR_PREC(res)
    IN  realprec >= wide + StaticGuardBits

\* C25: at every test that ends a pass of a general path, the first one
\* included, test_prec = realprec - err is strictly greater than the target
\* precision, for every degree n >= 2 and every pair of precisions.
C25_TestPrecAboveTarget ==
  (AtCheck /\ n >= 2) => realprec - err > MPFR_PREC(res)

\* The exact value of an integer and of a number that is zero or regular.
ExactInt(k) == IF k < 0 THEN Exact(-1, BNFromInt(-k), 0) ELSE Exact(1, BNFromInt(k), 0)

ValueOf(v) == IF MPFR_IS_ZERO(v) THEN Exact(1, <<>>, 0) ELSE ExactOf(v)

\* v / d for a quotient that is a dyadic number, d >= 1.
ExactDivUi(v, d) ==
  IF v.man = <<>> THEN v
  ELSE LET tz == IntTrailingZeros(d)
       IN  Exact(v.sign, BNDivSmall(v.man, d \div Pow2(tz)).q, v.exp - tz)

\* P_k (v) by Bonnet's recursion over the exact values:
\* P_k = ((2k - 1) v P_(k-1) - (k - 1) P_(k-2)) / k, P_0 = 1, P_1 = v.
RECURSIVE LegendreP(_, _)
LegendreP(v, k) ==
  IF k = 0 THEN ExactInt(1)
  ELSE IF k = 1 THEN v
  ELSE ExactDivUi(
         ExactAdd(ExactMul(ExactMul(ExactInt(2 * k - 1), v), LegendreP(v, k - 1)),
                  ExactNeg(ExactMul(ExactInt(k - 1), LegendreP(v, k - 2)))),
         k)

\* H_k (v) over the exact values: H_(k+1) = 2v H_k - 2k H_(k-1), H_0 = 1,
\* H_1 = 2v.
RECURSIVE HermiteH(_, _)
HermiteH(v, k) ==
  IF k = 0 THEN ExactInt(1)
  ELSE IF k = 1 THEN ExactMul(ExactInt(2), v)
  ELSE ExactAdd(ExactMul(ExactMul(ExactInt(2), v), HermiteH(v, k - 1)),
                ExactNeg(ExactMul(ExactInt(2 * (k - 1)), HermiteH(v, k - 2))))

\* The number v holds the exact value w.
Holds(v, w) == v.cls \in {"reg", "zero"} /\ ExactCmp(ValueOf(v), w) = 0

\* C26: a pass of a general path in which no operation rounds keeps a
\* sliding window of two terms (at the head of step i, p1 = P_(i-1) and
\* p2 = P_(i-2) for mpfr_legendre, p1 = H_i and p2 = H_(i-1) for
\* mpfr_hermite), has made exactly n - 1 steps when the while loop ends,
\* and ends with pn equal to the polynomial of degree n at x.
C26_ExactPass ==
  (pc = "compute" /\ n >= 2 /\ ~inexact) =>
    IF fn = "legendre"
    THEN /\ Holds(p1, LegendreP(ValueOf(x), i - 1))
         /\ Holds(p2, LegendreP(ValueOf(x), i - 2))
         /\ AtCheck => (i - 2 = n - 1 /\ Holds(pn, LegendreP(ValueOf(x), n)))
    ELSE /\ Holds(p1, HermiteH(ValueOf(x), i))
         /\ Holds(p2, HermiteH(ValueOf(x), i - 1))
         /\ AtCheck => (i - 1 = n - 1 /\ Holds(pn, HermiteH(ValueOf(x), n)))

\* A pass of mpfr_legendre of degree 3 at least, at x # 0, has ended
\* without a rounding.
C26_Witness ==
  /\ pc = "compute" /\ AtCheck /\ ~inexact
  /\ fn = "legendre" /\ n >= 3 /\ x.cls = "reg"
  /\ Holds(pn, LegendreP(ValueOf(x), n))

\* The five temporaries at the head of step k of a pass at precision prec
\* on the argument v, every operation rounding to nearest: a function of
\* the family, v, prec and k alone.
RECURSIVE NearestPass(_, _, _, _)
NearestPass(f, v, prec, k) ==
  LET T == Temp(prec)
      one == mpfr_set_ui(T, 1, "RNDN").val
  IN  IF f = "legendre"
      THEN IF k <= 2
           THEN [p1 |-> mpfr_set(T, v, "RNDN").val, p2 |-> one, pn |-> T,
                 first_term |-> T, second_term |-> T]
           ELSE LET w  == NearestPass(f, v, prec, k - 1)
                    ft == mpfr_mul(T, mpfr_mul_ui(T, v, 2 * (k - 1) - 1, "RNDN").val,
                                   w.p1, "RNDN").val
                    st == mpfr_mul_ui(T, w.p2, k - 2, "RNDN").val
                    q  == mpfr_div_ui(T, mpfr_sub(T, ft, st, "RNDN").val, k - 1, "RNDN").val
                IN  [p1 |-> q, p2 |-> w.p1, pn |-> q, first_term |-> ft, second_term |-> st]
      ELSE IF k <= 1
           THEN [p1 |-> mpfr_mul_ui(T, v, 2, "RNDN").val, p2 |-> one, pn |-> T,
                 first_term |-> T, second_term |-> T]
           ELSE LET w  == NearestPass(f, v, prec, k - 1)
                    ft == mpfr_mul(T, mpfr_mul_ui(T, v, 2, "RNDN").val, w.p1, "RNDN").val
                    st == mpfr_mul_ui(T, w.p2, 2 * (k - 1), "RNDN").val
                    d  == mpfr_sub(T, ft, st, "RNDN").val
                IN  [p1 |-> d, p2 |-> w.p1, pn |-> d, first_term |-> ft, second_term |-> st]

\* C27: the requested rounding mode is not consulted inside a pass: the
\* terms a pass holds at step i are those of a pass at the same working
\* precision that rounds every operation to nearest, whatever rnd is, and
\* the value e of the closed form does not depend on rnd either; so two
\* calls that differ in rnd only hold the same terms at a given working
\* precision.
C27_ModeNotConsulted ==
  /\ pc = "compute" =>
       LET w == NearestPass(fn, x, realprec, i)
       IN  /\ p1 = w.p1 /\ p2 = w.p2 /\ pn = w.pn
           /\ first_term = w.first_term /\ second_term = w.second_term
  /\ (pc = "closed_check" /\ ~overflow) => e = ClosedApprox(n, realprec, off)

\* A pass under MPFR_RNDZ has ended after operations that rounded.
C27_Witness ==
  /\ pc = "compute" /\ AtCheck /\ n >= 2 /\ rnd = "RNDZ" /\ inexact
  /\ pn = NearestPass(fn, x, realprec, i).pn

\* The lost-bit count step i measures in the current state.
Measured ==
  LET t == LegendreTerms(x, p1, p2, i, realprec)
  IN  likely_cancellation(t.first_term, t.second_term, realprec)

\* The counts met so far at one step are one value: those of the restarts
\* made and, inside the while loop, the one the current step measures.
SameCountAtEachStep ==
  /\ \A j, k \in 1..Len(restarts) :
       restarts[j].step = restarts[k].step => restarts[j].lost = restarts[k].lost
  /\ InLoop => \A k \in 1..Len(restarts) :
       restarts[k].step = i => restarts[k].lost = Measured

\* C28: in mpfr_legendre, as long as the lost-bit count of a step does not
\* change with the working precision, a step that has restarted the pass
\* does not restart it again (the margin realprec - MPFR_PREC (res) exceeds
\* its count from then on), the restarts made are at different steps and
\* are at most n - 1; and a pass makes at most n - 1 steps, so that the
\* passes and the steps of one evaluation are bounded and the while loop is
\* left.
C28_RestartOncePerStep ==
  (fn = "legendre" /\ SameCountAtEachStep) =>
    /\ InLoop => \A k \in 1..Len(restarts) :
         restarts[k].step = i => Measured <= realprec - MPFR_PREC(res)
    /\ \A j, k \in 1..Len(restarts) :
         restarts[j].step = restarts[k].step => j = k
    /\ \A k \in 1..Len(restarts) : restarts[k].step \in 2..n
    /\ Len(restarts) <= (IF n >= 2 THEN n - 1 ELSE 0)
    /\ (pc = "compute" /\ n >= 2) => i \in 2..(n + 1)

\* A step that restarted the pass measures the same count in the next pass
\* and goes on.
C28_Witness ==
  /\ fn = "legendre" /\ InLoop
  /\ restarts = <<[step |-> i, lost |-> Measured]>>
  /\ Measured <= realprec - MPFR_PREC(res)

\* The call is at x = 0 with an even degree n >= 2.
ZeroEven == fn # "none" /\ MPFR_IS_ZERO(x) /\ n >= 2 /\ n % 2 = 0

C30_PnAssigned ==
  (pc = "compute" /\ AtCheck) => (i > BaseStep /\ pn.cls # "uninit")

=============================================================================
